---- MODULE Spec2Model ----
(***************************************************************************)
(* Verification model of the collaborative text editor.                    *)
(*                                                                         *)
(* Part 1: the replicated text engine of                                   *)
(*   src/src/client/utils/CRDTTextEditor.js  (class CRDTTextEditor).       *)
(* A replica is the record [siteId, lamportTime, data, tombstones,         *)
(* idCounter]; every method is an operator from a replica (and its         *)
(* arguments) to the replica after the call, and every action below runs   *)
(* one method call on one replica.                                         *)
(***************************************************************************)
EXTENDS Integers, Sequences, FiniteSets, TLC

\* ------------------------------------------------------------------ bounds
\* total number of local edits (localInsert + localDelete) over all replicas
MaxEdits == 2
\* cap of the Lamport clock: no method call is started at or above it
MaxTime == 4

\* walk of generateIdBetween over adjacent ids: how many times the new id
\* may become the upper end, and the lower end, of the next gap
MaxBelow == 22
MaxAbove == 2

\* scenario of a typist and a peer that erases: characters typed, characters
\* erased
MaxTyped == 3
MaxErased == 1

\* the outbound queue: operations enqueued over a run, and the number of
\* times the wall clock is seen to have moved
MaxQueued == 2
MaxTicks == 2

\* the relay: messages it receives from its sockets over a run
MaxMessages == 2

\* a session at work: keys pressed over a run
MaxKeys == 2
\* a session at work: presses of the button Sync Now over a run
MaxPresses == 1
\* an editor called directly: operations made over a run
MaxCalls == 3

\* const maxReconnectAttempts = 10
maxReconnectAttempts == 10

\* const maxReconnectDelay = 30000
maxReconnectDelay == 30000

\* const baseReconnectDelay = 1000
baseReconnectDelay == 1000

\* cleanupStale(maxAgeMs = 7 * 24 * 60 * 60 * 1000)
StaleAge == 604800000

\* const BASE = 1000000 (generateIdBetween)
BASE == 1000000

\* the replicas (siteId of each, TextEditor.jsx:19)
Sites == {"A", "B", "C"}
\* the characters typed: every key press types the next letter, so that the
\* characters of a text can be told apart (no method looks at a value)
Letters == <<"a", "b", "c", "d", "e", "f", "g", "h">>
\* the two participants that edit and receive in Spec
Peers == {"A", "B"}
\* in SpecFanOut one participant edits and the others only receive
Writer == "A"
Readers == {"B", "C"}

VARIABLES
    data,          \* [site -> sequence of characters]     this.data
    tombstones,    \* [site -> set of id strings]          this.tombstones (keys)
    lamportTime,   \* [site -> Nat]                        this.lamportTime
    idCounter,     \* [site -> Nat]                        this.idCounter
    ops,           \* operations handed to onOperation, i.e. given to the relay
    seen,          \* history: [site -> operations applied by applyRemoteOperation]
    restored,      \* history: [site -> applyState was called on the replica]
    gen,           \* one call of generateIdBetween: arguments and result
    operations,    \* OfflineQueue: this.operations
    storage,       \* localStorage item under this.storageKey
    now,           \* Date.now()
    qlog,          \* history: the entries enqueued so far, and the last call
    server,        \* which relay runs: "part_000" (acknowledges) or "index.js"
    clients,       \* relay: let clients = new Set()
    userCount,     \* relay: let userCount
    readyState,    \* relay: [socket -> readyState of its server end]
    inbox,         \* [socket -> messages the relay has sent down the socket]
    lastEvent,     \* history: the last event the relay handled
    connectionState,   \* useWebSocket: connectionState
    wsRef,             \* wsRef.current (NoSocket for null)
    reconnectAttempts, \* reconnectAttemptsRef.current
    reconnectTimeout,  \* reconnectTimeoutRef.current: "none", or the
                       \* connectionState of the connect the timer will call
    syncing,           \* syncingRef.current
    passRest,          \* syncQueuedOperations: queuedOps not yet looked at
    syncTimers,        \* pending setTimeout(syncQueuedOperations, 100)
    effect,            \* "none", or the connectionState of the render whose
                       \* effect (cleanup, then connect) has yet to run
    sock,              \* [socket -> client end: readyState, handlers, by]
    wire,              \* [socket -> messages written to it, not yet received]
    log                \* history: operations written to a socket, and
                       \* operations handed to the peer's editor, the
                       \* last call made to an editor directly, the last
                       \* pass of syncQueuedOperations (the queue it read,
                       \* what it wrote and to which socket), and counts of
                       \* the times the session was connected, of the calls
                       \* of syncQueuedOperations that found an open socket
                       \* and no pass at work (passes; byTimer those of the
                       \* timer of onopen; passSocket the socket of the
                       \* last of them), and of the sockets made and the
                       \* attempts failed since the session was connected

crdtVars == <<data, tombstones, lamportTime, idCounter, ops, seen, restored>>
queueVars == <<operations, storage, now, qlog>>
relayVars == <<server, clients, userCount, readyState, inbox, lastEvent>>
sessionState == <<connectionState, wsRef, reconnectAttempts, reconnectTimeout,
                  syncing, passRest, syncTimers, effect, sock, wire>>
sessionVars == <<sessionState, log>>
\* what the actions of the replicas leave alone
nonCrdt == <<gen, queueVars, relayVars, sessionVars>>
vars == <<data, tombstones, lamportTime, idCounter, ops, seen, restored, gen,
          queueVars, relayVars, sessionVars>>

\* ------------------------------------------------------------ JS helpers
Min(a, b) == IF a < b THEN a ELSE b
Max(a, b) == IF a > b THEN a ELSE b

\* Array.prototype.splice(start, deleteCount, ...items): start is clamped to
\* [0, length], a negative start counts from the end.
SpliceStart(s, start) ==
    IF start < 0 THEN Max(Len(s) + start, 0) ELSE Min(start, Len(s))

SpliceInsert(s, start, item) ==
    LET k == SpliceStart(s, start)
    IN  SubSeq(s, 1, k) \o <<item>> \o SubSeq(s, k + 1, Len(s))

SpliceRemove(s, start) ==
    LET k == SpliceStart(s, start)
    IN  SubSeq(s, 1, k) \o SubSeq(s, k + 2, Len(s))

\* id.join(',') of a character id [lamportTime, siteId, idCounter]
idString(id) == ToString(id[1]) \o "," \o id[2] \o "," \o ToString(id[3])

\* this.data.findIndex(char => char.id.join(',') === idString): 0-based
\* index of the first match, -1 when there is none
findIndex(d, s) ==
    IF \E i \in 1..Len(d) : idString(d[i].id) = s
    THEN (CHOOSE i \in 1..Len(d) :
             /\ idString(d[i].id) = s
             /\ \A j \in 1..(i - 1) : idString(d[j].id) # s) - 1
    ELSE -1

\* The result of a JS subtraction: a number, or NaN when an operand is a
\* string that is no number (the siteId, TextEditor.jsx:19)
NaN == [nan |-> TRUE, n |-> 0]
Num(k) == [nan |-> FALSE, n |-> k]
\* comparison < 0 (false of NaN)
Neg(c) == ~c.nan /\ c.n < 0

\* compareIds(id1, id2), strings being the components that hold strings
compareIdsBy(id1, id2, strings) ==
    LET minLength == Min(Len(id1), Len(id2))
        differ == {i \in 1..minLength : id1[i] # id2[i]}
    IN  IF differ # {}
        THEN LET i == CHOOSE k \in differ : \A j \in differ : k <= j
             IN  IF i \notin strings THEN Num(id1[i] - id2[i]) ELSE NaN
        ELSE Num(Len(id1) - Len(id2))

\* compareIds on ids whose components are all numbers
compareIds(id1, id2) == compareIdsBy(id1, id2, {})

\* compareIds on the ids localInsert makes, [lamportTime, siteId, idCounter]
compareCharIds(id1, id2) == compareIdsBy(id1, id2, {2})

\* ------------------------------------------------------- CRDTTextEditor
\* constructor(siteId)
NewReplica(s) ==
    [siteId |-> s, lamportTime |-> 0, data |-> <<>>, tombstones |-> {},
     idCounter |-> 0]

\* localInsert(index, char): the replica after the call and the operation
\* it returns
localInsert(st, index, char) ==
    LET t     == st.lamportTime + 1
        c     == st.idCounter + 1
        newId == <<t, st.siteId, c>>
        newChar == [id |-> newId, value |-> char, timestamp |-> t,
                    siteId |-> st.siteId, position |-> index]
    IN  [st |-> [st EXCEPT !.lamportTime = t,
                           !.idCounter = c,
                           !.data = SpliceInsert(st.data, index, newChar)],
         op |-> [type |-> "insert", id |-> newId, value |-> char,
                 timestamp |-> t, siteId |-> st.siteId, position |-> index]]

\* what localDelete returns when the index is out of range
Null == [type |-> "null"]

\* localDelete that leaves the tombstones as they are
localDelete_NoTombstone(st, index) ==
    IF index < 0 \/ index >= Len(st.data)
    THEN [st |-> st, op |-> Null]
    ELSE LET charToDelete == st.data[index + 1]
             t == st.lamportTime + 1
         IN  [st |-> [st EXCEPT
                        !.lamportTime = t,
                        !.data = SpliceRemove(st.data, index)],
              op |-> [type |-> "delete", id |-> charToDelete.id,
                      timestamp |-> t, siteId |-> st.siteId]]

\* localDelete(index)
localDelete(st, index) ==
    IF index < 0 \/ index >= Len(st.data)
    THEN [st |-> st, op |-> Null]
    ELSE LET charToDelete == st.data[index + 1]
             t == st.lamportTime + 1
         IN  [st |-> [st EXCEPT
                        !.lamportTime = t,
                        !.tombstones = @ \cup {idString(charToDelete.id)},
                        !.data = SpliceRemove(st.data, index)],
              op |-> [type |-> "delete", id |-> charToDelete.id,
                      timestamp |-> t, siteId |-> st.siteId]]

\* getText()
RECURSIVE JoinValues(_)
JoinValues(d) == IF d = <<>> THEN "" ELSE Head(d).value \o JoinValues(Tail(d))

getText(st) == JoinValues(st.data)

\* applyRemoteInsert without the test of the tombstones (line 172)
applyRemoteInsert_NoTombstoneTest(st, operation) ==
    LET s == idString(operation.id)
    IN  IF findIndex(st.data, s) = -1
        THEN LET newChar == [id |-> operation.id,
                             value |-> operation.value,
                             timestamp |-> operation.timestamp,
                             siteId |-> operation.siteId,
                             position |-> operation.position]
                 insertPos == Min(operation.position, Len(st.data))
             IN  [st EXCEPT !.data = SpliceInsert(@, insertPos, newChar)]
        ELSE st

\* applyRemoteInsert without the test for a character already there
\* (line 178)
applyRemoteInsert_NoDuplicateTest(st, operation) ==
    LET s == idString(operation.id)
    IN  IF s \notin st.tombstones
        THEN LET newChar == [id |-> operation.id,
                             value |-> operation.value,
                             timestamp |-> operation.timestamp,
                             siteId |-> operation.siteId,
                             position |-> operation.position]
                 insertPos == Min(operation.position, Len(st.data))
             IN  [st EXCEPT !.data = SpliceInsert(@, insertPos, newChar)]
        ELSE st

\* applyRemoteInsert(operation); operation.position || 0 is
\* operation.position, a number
applyRemoteInsert(st, operation) ==
    LET s == idString(operation.id)
    IN  IF s \notin st.tombstones
        THEN IF findIndex(st.data, s) = -1
             THEN LET newChar == [id |-> operation.id,
                                  value |-> operation.value,
                                  timestamp |-> operation.timestamp,
                                  siteId |-> operation.siteId,
                                  position |-> operation.position]
                      insertPos == Min(operation.position, Len(st.data))
                  IN  [st EXCEPT !.data = SpliceInsert(@, insertPos, newChar)]
             ELSE st
        ELSE st

\* applyRemoteDelete(operation)
applyRemoteDelete(st, operation) ==
    LET s == idString(operation.id)
        indexToDelete == findIndex(st.data, s)
        marked == [st EXCEPT !.tombstones = @ \cup {s}]
    IN  IF indexToDelete # -1
        THEN [marked EXCEPT !.data = SpliceRemove(@, indexToDelete)]
        ELSE marked

\* applyRemoteOperation advancing the clock by one without the max with the
\* timestamp of the operation (line 156)
applyRemoteOperation_NoMax(st, operation) ==
    LET ticked == [st EXCEPT !.lamportTime = @ + 1]
    IN  IF operation.type = "insert" THEN applyRemoteInsert(ticked, operation)
        ELSE IF operation.type = "delete"
             THEN applyRemoteDelete(ticked, operation)
             ELSE ticked

\* applyRemoteOperation(operation)
applyRemoteOperation(st, operation) ==
    LET ticked == [st EXCEPT
                     !.lamportTime = Max(@, operation.timestamp) + 1]
    IN  IF operation.type = "insert" THEN applyRemoteInsert(ticked, operation)
        ELSE IF operation.type = "delete"
             THEN applyRemoteDelete(ticked, operation)
             ELSE ticked

\* getState()
getState(st) ==
    [data |-> st.data, tombstones |-> st.tombstones,
     lamportTime |-> st.lamportTime]

\* applyState(state)
applyState(st, state) ==
    [st EXCEPT !.data = state.data,
               !.tombstones = state.tombstones,
               !.lamportTime = Max(@, state.lamportTime)]

\* null / undefined where an id is expected
Nil == <<>>

\* id.slice(0, depth)
Slice(id, depth) == SubSeq(id, 1, Min(depth, Len(id)))

\* id[depth] || dflt : the component, or dflt when it is missing or 0
AtOr(id, depth, dflt) ==
    IF depth < Len(id) /\ id[depth + 1] # 0 THEN id[depth + 1] ELSE dflt

\* while (id.length <= depth) id.push(pad)
RECURSIVE PadTo(_, _, _)
PadTo(id, depth, pad) ==
    IF Len(id) <= depth THEN PadTo(Append(id, pad), depth, pad) ELSE id

\* generateIdBetween(prevId, nextId, depth = 0)
RECURSIVE generateIdBetween(_, _, _)
generateIdBetween(prevId, nextId, depth) ==
    IF prevId = Nil /\ nextId = Nil THEN <<BASE>>
    ELSE IF prevId = Nil
    THEN LET nextPos == AtOr(nextId, depth, 0)
         IN  IF nextPos > 1
             THEN Slice(nextId, depth) \o <<nextPos \div 2>>
             ELSE Slice(nextId, depth) \o <<0, BASE>>
    ELSE IF nextId = Nil
    THEN LET prevPos == AtOr(prevId, depth, 0)
         IN  Slice(prevId, depth) \o <<prevPos + BASE>>
    ELSE LET prevPos == AtOr(prevId, depth, 0)
             nextPos == AtOr(nextId, depth, BASE * 2)
         IN  IF prevPos < nextPos - 1
             THEN Slice(prevId, depth) \o <<(prevPos + nextPos) \div 2>>
             ELSE generateIdBetween(PadTo(prevId, depth, 0),
                                    PadTo(nextId, depth, BASE * 2),
                                    depth + 1)

\* ----------------------------------------------- the fractional-id variant
\* class CRDTTextEditor of src/unnamed/part_001: ids are vectors of numbers
\* made by generateIdBetween, characters are placed by findIndexForId.

\* id.join(',') of a vector of numbers
RECURSIVE idStringP1(_)
idStringP1(id) ==
    IF Len(id) = 0 THEN ""
    ELSE IF Len(id) = 1 THEN ToString(id[1])
    ELSE ToString(id[1]) \o "," \o idStringP1(Tail(id))

findIndexP1(d, s) ==
    IF \E i \in 1..Len(d) : idStringP1(d[i].id) = s
    THEN (CHOOSE i \in 1..Len(d) :
             /\ idStringP1(d[i].id) = s
             /\ \A j \in 1..(i - 1) : idStringP1(d[j].id) # s) - 1
    ELSE -1

\* generateIdBetween(prevId, nextId, depth = 0) of part_001. prevPos and
\* nextPos are numbers (|| 0), so the two branches testing them against
\* undefined are never taken.
RECURSIVE generateIdBetweenP1(_, _, _)
generateIdBetweenP1(prevId, nextId, depth) ==
    LET prevPos == AtOr(prevId, depth, 0)
        nextPos == AtOr(nextId, depth, 0)
    IN  IF prevPos < nextPos - 1
        THEN Slice(prevId, depth) \o <<(prevPos + nextPos) \div 2>>
        ELSE IF prevPos = nextPos - 1
        THEN generateIdBetweenP1(prevId, nextId, depth + 1)
        ELSE <<1>>

\* findIndexForId(targetId): the binary search, from low and high
RECURSIVE Search(_, _, _, _)
Search(d, targetId, low, high) ==
    IF low < high
    THEN LET mid == (low + high) \div 2
             comparison == compareIds(d[mid + 1].id, targetId)
         IN  IF Neg(comparison)
             THEN Search(d, targetId, mid + 1, high)
             ELSE Search(d, targetId, low, mid)
    ELSE low

findIndexForId(d, targetId) == Search(d, targetId, 0, Len(d))

\* localInsert(index, char) of part_001
localInsertP1(st, index, char) ==
    LET t == st.lamportTime + 1
        prevId == IF index > 0 /\ index - 1 < Len(st.data)
                  THEN st.data[index].id ELSE Nil
        nextId == IF index < Len(st.data) /\ index >= 0
                  THEN st.data[index + 1].id ELSE Nil
        newId == generateIdBetweenP1(prevId, nextId, 0)
        newChar == [id |-> newId, value |-> char, timestamp |-> t,
                    siteId |-> st.siteId]
        insertIndex == findIndexForId(st.data, newId)
    IN  [st |-> [st EXCEPT !.lamportTime = t,
                           !.data = SpliceInsert(st.data, insertIndex, newChar)],
         op |-> [type |-> "insert", id |-> newId, value |-> char,
                 timestamp |-> t, siteId |-> st.siteId]]

\* localDelete(index) of part_001
localDeleteP1(st, index) ==
    IF index < 0 \/ index >= Len(st.data)
    THEN [st |-> st, op |-> Null]
    ELSE LET charToDelete == st.data[index + 1]
             t == st.lamportTime + 1
         IN  [st |-> [st EXCEPT
                        !.lamportTime = t,
                        !.tombstones = @ \cup {idStringP1(charToDelete.id)},
                        !.data = SpliceRemove(st.data, index)],
              op |-> [type |-> "delete", id |-> charToDelete.id,
                      timestamp |-> t, siteId |-> st.siteId]]

\* applyRemoteOperation(operation) of part_001
applyRemoteOperationP1(st, operation) ==
    LET ticked == [st EXCEPT
                     !.lamportTime = Max(@, operation.timestamp) + 1]
        s == idStringP1(operation.id)
    IN  IF operation.type = "insert"
        THEN IF s \notin ticked.tombstones /\ findIndexP1(ticked.data, s) = -1
             THEN LET newChar == [id |-> operation.id,
                                  value |-> operation.value,
                                  timestamp |-> operation.timestamp,
                                  siteId |-> operation.siteId]
                      insertIndex == findIndexForId(ticked.data, operation.id)
                  IN  [ticked EXCEPT
                         !.data = SpliceInsert(@, insertIndex, newChar)]
             ELSE ticked
        ELSE IF operation.type = "delete"
        THEN LET indexToDelete == findIndexP1(ticked.data, s)
                 marked == [ticked EXCEPT !.tombstones = @ \cup {s}]
             IN  IF indexToDelete # -1
                 THEN [marked EXCEPT !.data = SpliceRemove(@, indexToDelete)]
                 ELSE marked
        ELSE ticked

\* --------------------------------------------------------- OfflineQueue
\* (src/unnamed/part_002)
\* JSON text of an object: its properties in insertion order, each a pair
\* <<key, value>>; the properties of a queued operation are those of the
\* operation ({...operation}), then queuedAt
KeyOrder ==
    <<"type", "id", "value", "timestamp", "siteId", "position", "queuedAt">>

RECURSIVE stringifyFrom(_, _)
stringifyFrom(o, k) ==
    IF k > Len(KeyOrder) THEN <<>>
    ELSE (IF KeyOrder[k] \in DOMAIN o
          THEN <<(<<KeyOrder[k], o[KeyOrder[k]]>>)>>
          ELSE <<>>) \o stringifyFrom(o, k + 1)

\* JSON.stringify(this.operations)
stringify(list) == [i \in 1..Len(list) |-> stringifyFrom(list[i], 1)]

\* JSON.parse of the text of one object
parseObject(t) ==
    [k \in {t[i][1] : i \in 1..Len(t)} |->
        LET last == CHOOSE i \in 1..Len(t) :
                       /\ t[i][1] = k
                       /\ \A j \in (i + 1)..Len(t) : t[j][1] # k
        IN  t[last][2]]

\* JSON.parse(stored)
parse(text) == [i \in 1..Len(text) |-> parseObject(text[i])]

\* localStorage.getItem(key) === null
NoItem == [present |-> FALSE, text |-> <<>>]

\* loadFromStorage()
loadFromStorage(stored) == IF stored.present THEN parse(stored.text) ELSE <<>>

\* saveToStorage(): localStorage.setItem either stores the text or throws
\* (accepted = FALSE), and then the item is as it was
saveToStorage(list, stored, accepted) ==
    IF accepted THEN [present |-> TRUE, text |-> stringify(list)] ELSE stored

\* generateOperationId(): the string `queue-${Date.now()}-${random}`, kept
\* as the sequence of its four parts. An id made by localInsert is an array
\* of three components, so the two kinds differ in length.
generateOperationId(t, random) == <<"queue-", t, "-", random>>

\* new OfflineQueue(documentId) over the stored item
NewOfflineQueue(stored) ==
    [operations |-> loadFromStorage(stored), storage |-> stored]

\* the queue object and the item it persists to
Queue == [operations |-> operations, storage |-> storage]

\* enqueue that writes the item before it appends the operation
enqueue_SaveBeforePush(q, operation, t, random, accepted) ==
    LET queuedOperation ==
            [k \in DOMAIN operation \cup {"queuedAt", "id"} |->
                IF k = "queuedAt" THEN t
                ELSE IF k = "id" THEN generateOperationId(t, random)
                ELSE operation[k]]
    IN  [q |-> [operations |-> Append(q.operations, queuedOperation),
                storage |-> saveToStorage(q.operations, q.storage, accepted)],
         queuedOperation |-> queuedOperation]

\* enqueue that puts the operation at the head of the list
enqueue_AtHead(q, operation, t, random, accepted) ==
    LET queuedOperation ==
            [k \in DOMAIN operation \cup {"queuedAt", "id"} |->
                IF k = "queuedAt" THEN t
                ELSE IF k = "id" THEN generateOperationId(t, random)
                ELSE operation[k]]
        pushed == <<queuedOperation>> \o q.operations
    IN  [q |-> [operations |-> pushed,
                storage |-> saveToStorage(pushed, q.storage, accepted)],
         queuedOperation |-> queuedOperation]

\* enqueue(operation): the queue after the call and the entry it returns
enqueue(q, operation, t, random, accepted) ==
    LET queuedOperation ==
            [k \in DOMAIN operation \cup {"queuedAt", "id"} |->
                IF k = "queuedAt" THEN t
                ELSE IF k = "id" THEN generateOperationId(t, random)
                ELSE operation[k]]
        pushed == Append(q.operations, queuedOperation)
    IN  [q |-> [operations |-> pushed,
                storage |-> saveToStorage(pushed, q.storage, accepted)],
         queuedOperation |-> queuedOperation]

\* getAll()
getAll(q) == q.operations

\* removeProcessed that removes the first entry, whatever its id
removeProcessed_First(q, operationIds, accepted) ==
    LET kept == IF q.operations = <<>> THEN <<>> ELSE Tail(q.operations)
    IN  [operations |-> kept,
         storage |-> saveToStorage(kept, q.storage, accepted)]

\* removeProcessed(operationIds)
removeProcessed(q, operationIds, accepted) ==
    LET includes(id) == \E i \in 1..Len(operationIds) : operationIds[i] = id
        keep(op) == ~includes(op.id)
        kept == SelectSeq(q.operations, keep)
    IN  [operations |-> kept,
         storage |-> saveToStorage(kept, q.storage, accepted)]

\* cleanupStale(maxAgeMs)
cleanupStale(q, maxAgeMs, t, accepted) ==
    LET cutoff == t - maxAgeMs
        keep(op) == op.queuedAt >= cutoff
        kept == SelectSeq(q.operations, keep)
    IN  IF Len(kept) # Len(q.operations)
        THEN [operations |-> kept,
              storage |-> saveToStorage(kept, q.storage, accepted)]
        ELSE [operations |-> kept, storage |-> q.storage]

\* ------------------------------------------------------------- the relay
\* (src/unnamed/part_000, which acknowledges, and src/src/server/index.js)
\* the sockets of three participants, one each
Sockets == {1, 2, 3}

\* excludeWs = null
NoSocket == 0

\* the relay: its two variables, the server ends of the sockets and what it
\* has sent down each
Relay ==
    [clients |-> clients, userCount |-> userCount, readyState |-> readyState,
     inbox |-> inbox]

\* broadcast that does not leave out excludeWs
broadcast_ToAll(rs, message, excludeWs) ==
    [rs EXCEPT !.inbox =
        [c \in DOMAIN rs.inbox |->
            IF c \in rs.clients /\ rs.readyState[c] = "OPEN"
            THEN Append(rs.inbox[c], message)
            ELSE rs.inbox[c]]]

\* broadcast(data, excludeWs)
broadcast(rs, message, excludeWs) ==
    [rs EXCEPT !.inbox =
        [c \in DOMAIN rs.inbox |->
            IF c \in rs.clients /\ c # excludeWs /\ rs.readyState[c] = "OPEN"
            THEN Append(rs.inbox[c], message)
            ELSE rs.inbox[c]]]

\* wss.on('connection'), the socket being open by then
onConnection(rs, ws) ==
    LET joined == [rs EXCEPT !.userCount = @ + 1, !.clients = @ \cup {ws}]
    IN  broadcast(joined, [type |-> "users_update", count |-> joined.userCount],
                  NoSocket)

\* ws.on('close') that keeps the socket in the set
onClose_KeepsClient(rs, ws) ==
    LET left == [rs EXCEPT !.userCount = @ - 1]
    IN  broadcast(left, [type |-> "users_update", count |-> left.userCount],
                  NoSocket)

\* ws.on('close'), the socket being closed by then
onClose(rs, ws) ==
    LET left == [rs EXCEPT !.userCount = @ - 1, !.clients = @ \ {ws}]
    IN  broadcast(left, [type |-> "users_update", count |-> left.userCount],
                  NoSocket)

\* data.isSync && data.operation.id
AsksAck(message) ==
    /\ "isSync" \in DOMAIN message /\ message.isSync
    /\ "id" \in DOMAIN message.operation

\* JSON.parse(message) returns: the message is no raw text that does not
\* parse
Parses(message) == "text" \notin DOMAIN message

\* whether ws.on('message') throws: JSON.parse throws, and the catch block
\* of part_000 reads data, which the try block declared: a ReferenceError
\* that nothing catches, and the process exits
Throws(message, acks) == acks /\ ~Parses(message)

\* ws.on('message'); acks tells whether the relay is the one that
\* acknowledges (part_000)
onMessage(rs, ws, message, acks) ==
    IF ~Parses(message) THEN rs
    ELSE IF message.type = "operation"
    THEN LET fanned == broadcast(rs, [type |-> "operation",
                                      operation |-> message.operation], ws)
         IN  IF acks /\ AsksAck(message)
             THEN [fanned EXCEPT !.inbox[ws] =
                     Append(@, [type |-> "operation_ack",
                                operationId |-> message.operation.id,
                                success |-> TRUE])]
             ELSE fanned
    ELSE rs

\* ------------------------------------------------------------ useWebSocket
\* (src/src/client/hooks/useWebSocket.js)
\* the socket of the peer, which joins first, and the sockets the session
\* opens one after the other
PeerSocket == 1
SessionSockets == Sockets \ {PeerSocket}

\* the refs and the state of the hook, the client ends of its sockets and
\* what it has written to them
Session ==
    [connectionState |-> connectionState, wsRef |-> wsRef,
     reconnectAttempts |-> reconnectAttempts,
     reconnectTimeout |-> reconnectTimeout, syncing |-> syncing,
     passRest |-> passRest, syncTimers |-> syncTimers, effect |-> effect,
     sock |-> sock, wire |-> wire, log |-> log]

\* setConnectionState(v): a new value is a new render, in which connect has
\* a new identity, so that the effect [url, connect, cleanup] runs again;
\* a component that is unmounted (log.closed) does not render any more
setConnectionState(se, v) ==
    IF se.connectionState = v \/ se.log.closed THEN se
    ELSE [se EXCEPT !.connectionState = v, !.effect = v]

\* cleanup()
cleanup(se) ==
    LET cleared == [se EXCEPT !.reconnectTimeout = "none"]
        ws == cleared.wsRef
    IN  IF ws # NoSocket
        THEN [cleared EXCEPT
                !.sock[ws].handlers = FALSE,
                !.sock[ws].readyState = IF @ = "OPEN" THEN "CLOSING" ELSE @,
                !.wsRef = NoSocket]
        ELSE cleared

\* the socket new WebSocket(url) makes: the first one not used yet
FreeSocket(se) ==
    IF \E ws \in SessionSockets : se.sock[ws].readyState = "NONE"
    THEN CHOOSE ws \in SessionSockets :
            /\ se.sock[ws].readyState = "NONE"
            /\ \A w \in SessionSockets :
                  se.sock[w].readyState = "NONE" => ws <= w
    ELSE NoSocket

\* whether this call of connect gets as far as new WebSocket(url)
Connects(se, closure) ==
    /\ closure \notin {"CONNECTING", "CONNECTED"}
    /\ se.reconnectAttempts < maxReconnectAttempts

\* connect without the test of connectionState
connect_NoGuard(se, closure) ==
    IF se.reconnectAttempts >= maxReconnectAttempts
    THEN setConnectionState(se, "DISCONNECTED")
    ELSE [setConnectionState(se, "CONNECTING") EXCEPT
            !.sock[FreeSocket(se)] =
                [readyState |-> "CONNECTING", handlers |-> TRUE,
                 by |-> closure],
            !.log.opened = @ + 1]

\* connect without the test of reconnectAttemptsRef.current
connect_NoMax(se, closure) ==
    IF closure \in {"CONNECTING", "CONNECTED"} THEN se
    ELSE [setConnectionState(se, "CONNECTING") EXCEPT
            !.sock[FreeSocket(se)] =
                [readyState |-> "CONNECTING", handlers |-> TRUE,
                 by |-> closure],
            !.log.opened = @ + 1]

\* connect(), closure being the connectionState of the render that made
\* this connect
connect(se, closure) ==
    IF closure \in {"CONNECTING", "CONNECTED"} THEN se
    ELSE IF se.reconnectAttempts >= maxReconnectAttempts
    THEN setConnectionState(se, "DISCONNECTED")
    ELSE [setConnectionState(se, "CONNECTING") EXCEPT
            !.sock[FreeSocket(se)] =
                [readyState |-> "CONNECTING", handlers |-> TRUE,
                 by |-> closure],
            !.log.opened = @ + 1]

\* ws.onopen
onopen(se, ws) ==
    [setConnectionState([se EXCEPT !.wsRef = ws, !.reconnectAttempts = 0],
                        "CONNECTED")
     EXCEPT !.syncTimers = @ + 1,
            !.log.connected = @ + 1, !.log.opened = 0, !.log.failed = 0,
            !.log.delays = <<>>]

\* ws.onerror
onerror(se) == setConnectionState(se, "DISCONNECTED")

\* ws.onclose that schedules a reconnection whatever event.code is
onclose_AnyCode(se, ws, code) ==
    LET dropped == [se EXCEPT !.wsRef = NoSocket]
    IN  IF dropped.reconnectAttempts >= maxReconnectAttempts
        THEN setConnectionState(dropped, "DISCONNECTED")
        ELSE [setConnectionState(dropped, "RECONNECTING") EXCEPT
                !.reconnectAttempts = @ + 1,
                !.reconnectTimeout = se.sock[ws].by]

\* ws.onclose(event), code being event.code
onclose(se, ws, code) ==
    LET dropped == [se EXCEPT !.wsRef = NoSocket]
    IN  IF code = 1000 \/ dropped.reconnectAttempts >= maxReconnectAttempts
        THEN setConnectionState(dropped, "DISCONNECTED")
        ELSE [setConnectionState(dropped, "RECONNECTING") EXCEPT
                !.reconnectAttempts = @ + 1,
                !.reconnectTimeout = se.sock[ws].by]

\* Math.random() * 1000, in whole milliseconds: the least and the greatest
Jitters == {0, 999}

\* getReconnectDelay(), attempts being reconnectAttemptsRef.current and
\* random being Math.random() * 1000
getReconnectDelay(attempts, random) ==
    LET delay == IF baseReconnectDelay * 2 ^ attempts < maxReconnectDelay
                 THEN baseReconnectDelay * 2 ^ attempts
                 ELSE maxReconnectDelay
    IN  delay + random

\* ws.onclose(event) with the delay of the timer it sets, log.delays being
\* the delays since the last onopen
oncloseDelay(se, ws, code, random) ==
    LET closed == onclose(se, ws, code)
    IN  IF code = 1000 \/ se.reconnectAttempts >= maxReconnectAttempts
        THEN closed
        ELSE [closed EXCEPT !.log.delays =
                Append(@, getReconnectDelay(closed.reconnectAttempts,
                                            random))]

\* wsRef.current && wsRef.current.readyState === WebSocket.OPEN
IsOpen(se) == se.wsRef # NoSocket /\ se.sock[se.wsRef].readyState = "OPEN"

\* wsRef.current.send(JSON.stringify(message))
transmit(se, message) ==
    [se EXCEPT
       !.wire[se.wsRef] = Append(@, message),
       !.log.transmitted =
           Append(@, [timestamp |-> message.operation.timestamp,
                      isSync |-> "isSync" \in DOMAIN message])]

\* send(data) for a message of type operation: the session and the queue
\* after the call, and the entry made if the operation was queued;
\* offlineQueue tells whether the App passed a queue to useWebSocket. The
\* write to a socket whose readyState is OPEN does not throw.
send(se, offlineQueue, q, message, t, random, accepted) ==
    IF IsOpen(se)
    THEN [se |-> transmit(se, message), q |-> q, queued |-> <<>>]
    ELSE IF offlineQueue
    THEN LET call == enqueue(q, message.operation, t, random, accepted)
         IN  [se |-> se, q |-> call.q, queued |-> <<call.queuedOperation>>]
    ELSE [se |-> se, q |-> q, queued |-> <<>>]

\* one turn of the loop that leaves syncingRef.current as it is when the
\* pass ends
syncTurn_NoFinally(se) ==
    IF se.passRest = <<>>
    THEN [se EXCEPT !.log.pass.ended = TRUE, !.log.pass.finished = @ + 1]
    ELSE IF IsOpen(se)
    THEN LET message == [type |-> "operation",
                         operation |-> Head(se.passRest),
                         isSync |-> TRUE]
         IN  [transmit(se, message) EXCEPT
                !.passRest = Tail(@),
                !.log.pass.sent =
                    Append(@, [message |-> message, socket |-> se.wsRef,
                               readyState |-> se.sock[se.wsRef].readyState])]
    ELSE [se EXCEPT !.passRest = <<>>,
                    !.log.pass.ended = TRUE, !.log.pass.finished = @ + 1]

\* one turn of the loop of syncQueuedOperations, up to its await or to the
\* end of the pass
syncTurn(se) ==
    IF se.passRest = <<>>
    THEN [se EXCEPT !.syncing = FALSE,
                    !.log.pass.ended = TRUE, !.log.pass.finished = @ + 1]
    ELSE IF IsOpen(se)
    THEN LET message == [type |-> "operation",
                         operation |-> Head(se.passRest),
                         isSync |-> TRUE]
         IN  [transmit(se, message) EXCEPT
                !.passRest = Tail(@),
                !.log.pass.sent =
                    Append(@, [message |-> message, socket |-> se.wsRef,
                               readyState |-> se.sock[se.wsRef].readyState])]
    ELSE [se EXCEPT !.syncing = FALSE, !.passRest = <<>>,
                    !.log.pass.ended = TRUE, !.log.pass.finished = @ + 1]

\* syncQueuedOperations(), up to its first await
syncQueuedOperations(se, offlineQueue, q) ==
    IF ~offlineQueue \/ se.syncing \/ ~IsOpen(se) THEN se
    ELSE LET called == [se EXCEPT !.log.passes = @ + 1,
                                  !.log.passSocket = se.wsRef]
         IN  IF getAll(q) = <<>> THEN called
             ELSE syncTurn([called EXCEPT
                     !.syncing = TRUE, !.passRest = getAll(q),
                     !.log.pass = [snapshot |-> getAll(q), sent |-> <<>>,
                                   ended |-> FALSE, begun |-> @.begun + 1,
                                   finished |-> @.finished]])

\* handleWebSocketMessage, case 'operation_ack', without the test of
\* data.success
handleOperationAck_AnyAck(q, message, accepted) ==
    removeProcessed(q, <<message.operationId>>, accepted)

\* handleWebSocketMessage, case 'operation_ack' (part_004): the queue after
\* it; crdt.handleOperationAck is no function, which ws.onmessage catches
handleOperationAck(q, message, accepted) ==
    IF message.success
    THEN removeProcessed(q, <<message.operationId>>, accepted)
    ELSE q

\* an id that localInsert made is an array (of three components); the id of
\* a queued operation is a string (of four parts)
IsArray(id) == Len(id) = 3

\* applyRemoteOperation(operation) for whatever arrives: operation.id.join
\* is no function when the id is a string, operation.id is undefined when
\* there is no id, and either way the call throws a TypeError after it has
\* moved the clock
applyRemoteOperationOrThrow(st, operation) ==
    IF "id" \in DOMAIN operation /\ IsArray(operation.id)
    THEN [st |-> applyRemoteOperation(st, operation), threw |-> FALSE]
    ELSE [st |-> [st EXCEPT
                    !.lamportTime = Max(@, operation.timestamp) + 1],
          threw |-> TRUE]

\* ---------------------------------------------------------------- actions
Replica(r) ==
    [siteId |-> r, lamportTime |-> lamportTime[r], data |-> data[r],
     tombstones |-> tombstones[r], idCounter |-> idCounter[r]]

\* the replica r becomes st
\* the character of the next key press
Typed == Letters[(Cardinality(ops) % Len(Letters)) + 1]

Becomes(r, st) ==
    /\ data' = [data EXCEPT ![r] = st.data]
    /\ tombstones' = [tombstones EXCEPT ![r] = st.tombstones]
    /\ lamportTime' = [lamportTime EXCEPT ![r] = st.lamportTime]
    /\ idCounter' = [idCounter EXCEPT ![r] = st.idCounter]

\* no call of generateIdBetween is being observed
GenIdle == [pc |-> "idle"]

InitReplicas ==
    /\ data = [r \in Sites |-> NewReplica(r).data]
    /\ tombstones = [r \in Sites |-> NewReplica(r).tombstones]
    /\ lamportTime = [r \in Sites |-> NewReplica(r).lamportTime]
    /\ idCounter = [r \in Sites |-> NewReplica(r).idCounter]
    /\ ops = {}
    /\ seen = [r \in Sites |-> {}]
    /\ restored = [r \in Sites |-> FALSE]

\* the queue of a first visit: nothing stored, new OfflineQueue(documentId)
InitQueue ==
    /\ storage = NoItem
    /\ operations = NewOfflineQueue(NoItem).operations
    /\ now = 0
    /\ qlog = [enqueued |-> <<>>, call |-> "new", arg |-> Null,
               returned |-> Null, write |-> "none", removed |-> 0,
               ticks |-> 0]

\* the relay after server.listen, no socket yet
InitRelay ==
    /\ clients = {}
    /\ userCount = 0
    /\ readyState = [ws \in Sockets |-> "NONE"]
    /\ inbox = [ws \in Sockets |-> <<>>]
    /\ lastEvent = [event |-> "listen", ws |-> NoSocket, received |-> 0]

\* the hook at its first render, the effect of the mount yet to run
InitSession ==
    /\ connectionState = "DISCONNECTED"
    /\ wsRef = NoSocket
    /\ reconnectAttempts = 0
    /\ reconnectTimeout = "none"
    /\ syncing = FALSE
    /\ passRest = <<>>
    /\ syncTimers = 0
    /\ effect = "DISCONNECTED"
    /\ sock = [ws \in SessionSockets |->
                 [readyState |-> "NONE", handlers |-> FALSE, by |-> "none"]]
    /\ wire = [ws \in SessionSockets |-> <<>>]
    /\ log = [transmitted |-> <<>>, received |-> <<>>,
              call |-> [name |-> "none"],
              pass |-> [snapshot |-> <<>>, sent |-> <<>>, ended |-> FALSE,
                        begun |-> 0, finished |-> 0],
              connected |-> 0, passes |-> 0, byTimer |-> 0,
              passSocket |-> NoSocket,
              opened |-> 0, failed |-> 0, delays |-> <<>>,
              closed |-> FALSE]

Init == InitReplicas /\ gen = GenIdle /\ InitQueue
        /\ InitRelay /\ server = "part_000" /\ InitSession

\* a key press at caret position index (TextEditor.jsx handleKeyDown): the
\* operation localInsert returns is handed to onOperation
LocalInsert(r, index) ==
    /\ Cardinality(ops) < MaxEdits
    /\ lamportTime[r] < MaxTime
    /\ LET res == localInsert(Replica(r), index, Typed)
       IN  /\ Becomes(r, res.st)
           /\ ops' = ops \cup {res.op}
    /\ UNCHANGED <<seen, restored, nonCrdt>>

\* Backspace / Delete (TextEditor.jsx handleKeyDown)
LocalDelete(r, index) ==
    /\ Cardinality(ops) < MaxEdits
    /\ lamportTime[r] < MaxTime
    /\ LET res == localDelete(Replica(r), index)
       IN  /\ res.op # Null
           /\ Becomes(r, res.st)
           /\ ops' = ops \cup {res.op}
    /\ UNCHANGED <<seen, restored, nonCrdt>>

\* the relay delivers an operation of another participant (App.jsx
\* handleWebSocketMessage); any order, any number of times
ApplyRemote(r, op) ==
    /\ op \in ops
    /\ op.siteId # r
    /\ lamportTime[r] < MaxTime
    /\ Becomes(r, applyRemoteOperation(Replica(r), op))
    /\ seen' = [seen EXCEPT ![r] = @ \cup {op}]
    /\ UNCHANGED <<ops, restored, nonCrdt>>

\* r.applyState(q.getState()): synchronisation from the state of a peer,
\* which travels serialised (the two replicas share no array)
ApplyState(r, q) ==
    /\ q # r
    /\ Becomes(r, applyState(Replica(r), getState(Replica(q))))
    /\ restored' = [restored EXCEPT ![r] = TRUE]
    /\ UNCHANGED <<ops, seen, nonCrdt>>

\* two participants edit, receive each other's operations and synchronise
Next ==
    \/ \E r \in Peers, i \in 0..MaxEdits :
          i <= Len(data[r]) /\ LocalInsert(r, i)
    \/ \E r \in Peers, i \in 0..MaxEdits : LocalDelete(r, i)
    \/ \E r \in Peers, op \in ops : ApplyRemote(r, op)
    \/ \E r \in Peers, q \in Peers : ApplyState(r, q)

Spec == Init /\ [][Next]_vars

\* one participant edits; the two others start empty and only receive
NextFanOut ==
    \/ \E i \in 0..MaxEdits :
          i <= Len(data[Writer]) /\ LocalInsert(Writer, i)
    \/ \E i \in 0..MaxEdits : LocalDelete(Writer, i)
    \/ \E r \in Readers, op \in ops : ApplyRemote(r, op)

SpecFanOut == Init /\ [][NextFanOut]_vars

\* ------------------------------------------- the editor called directly
\* the indices a caller may pass: in range, below and above
Indexes == (0 - 1)..(MaxCalls + 1)

\* operations no localInsert or localDelete made: one whose id is the string
\* enqueue put there, and one without an id
Malformed ==
    LET sample == localInsert(NewReplica("C"), 0, "x").op
    IN  {enqueue(NewOfflineQueue(NoItem), sample, 0, "r1", TRUE).queuedOperation,
         [type |-> "insert", value |-> "x", timestamp |-> 1,
          siteId |-> "C", position |-> 0]}

\* crdt.localInsert(index, char), whatever the index
CallInsert(r, index) ==
    /\ Cardinality(ops) < MaxCalls
    /\ lamportTime[r] < MaxTime
    /\ LET res == localInsert(Replica(r), index, Typed)
       IN  /\ Becomes(r, res.st)
           /\ ops' = ops \cup {res.op}
           /\ log' = [log EXCEPT !.call =
                        [name |-> "localInsert", replica |-> r,
                         index |-> index, before |-> Replica(r),
                         returned |-> res.op]]
    /\ UNCHANGED <<seen, restored, gen, queueVars, relayVars, sessionState>>

\* crdt.localDelete(index), whatever the index
CallDelete(r, index) ==
    /\ LET res == localDelete(Replica(r), index)
       IN  /\ res.op # Null
              => Cardinality(ops) < MaxCalls /\ lamportTime[r] < MaxTime
           /\ Becomes(r, res.st)
           /\ ops' = IF res.op = Null THEN ops ELSE ops \cup {res.op}
           /\ log' = [log EXCEPT !.call =
                        [name |-> "localDelete", replica |-> r,
                         index |-> index, before |-> Replica(r),
                         returned |-> res.op]]
    /\ UNCHANGED <<seen, restored, gen, queueVars, relayVars, sessionState>>

\* crdt.applyRemoteOperation(operation), whatever the operation
CallApplyRemote(r, operation) ==
    /\ lamportTime[r] < MaxTime
    /\ "siteId" \in DOMAIN operation /\ operation.siteId # r
    /\ LET call == applyRemoteOperationOrThrow(Replica(r), operation)
       IN  /\ Becomes(r, call.st)
           /\ seen' = [seen EXCEPT ![r] =
                         IF call.threw THEN @ ELSE @ \cup {operation}]
           /\ log' = [log EXCEPT !.call =
                        [name |-> "applyRemoteOperation", replica |-> r,
                         operation |-> operation, before |-> Replica(r),
                         threw |-> call.threw]]
    /\ UNCHANGED <<ops, restored, gen, queueVars, relayVars, sessionState>>

\* one editor is called; an index further out of range than by one does
\* what that one does
NextCalls ==
    \/ \E index \in Indexes :
          index <= Len(data[Writer]) + 1 /\ CallInsert(Writer, index)
    \/ \E index \in Indexes :
          index <= Len(data[Writer]) + 1 /\ CallDelete(Writer, index)
    \/ \E operation \in Malformed : CallApplyRemote(Writer, operation)

SpecCalls == Init /\ [][NextCalls]_vars

\* ---------------------------------------------- a typist and an erasing peer
\* the writer types the next letter at the end of its text
TypeAtEnd ==
    /\ Cardinality({o \in ops : o.siteId = Writer}) < MaxTyped
    /\ LET res == localInsert(Replica(Writer), Len(data[Writer]), Typed)
       IN  /\ Becomes(Writer, res.st)
           /\ ops' = ops \cup {res.op}
    /\ UNCHANGED <<seen, restored, nonCrdt>>

\* a peer presses Delete with the caret before position index
EraseAt(r, index) ==
    /\ Cardinality({o \in ops : o.siteId = r}) < MaxErased
    /\ LET res == localDelete(Replica(r), index)
       IN  /\ res.op # Null
           /\ Becomes(r, res.st)
           /\ ops' = ops \cup {res.op}
    /\ UNCHANGED <<seen, restored, nonCrdt>>

\* the relay delivers an operation to a participant that has not had it yet
DeliverOnce(r, op) ==
    /\ op \in ops
    /\ op.siteId # r
    /\ op \notin seen[r]
    /\ Becomes(r, applyRemoteOperation(Replica(r), op))
    /\ seen' = [seen EXCEPT ![r] = @ \cup {op}]
    /\ UNCHANGED <<ops, restored, nonCrdt>>

NextS3 ==
    \/ TypeAtEnd
    \/ \E r \in Peers \ {Writer}, i \in 0..MaxTyped : EraseAt(r, i)
    \/ \E r \in Peers, op \in ops : DeliverOnce(r, op)

SpecS3 == Init /\ [][NextS3]_vars

\* ------------------------------------------------- the queue while offline
\* Math.random().toString(36).substr(2, 9)
Randoms == {"r1", "r2"}
\* how far the wall clock moves between two readings
ClockSteps == {1, StaleAge}

Written(accepted) == IF accepted THEN "accepted" ELSE "refused"

\* a key press while there is no open socket: send() hands the operation of
\* localInsert to offlineQueue.enqueue
EnqueueTyped(random, accepted) ==
    /\ Len(qlog.enqueued) < MaxQueued
    /\ LET res == localInsert(Replica(Writer), Len(data[Writer]), Typed)
           call == enqueue(Queue, res.op, now, random, accepted)
       IN  /\ Becomes(Writer, res.st)
           /\ ops' = ops \cup {res.op}
           /\ operations' = call.q.operations
           /\ storage' = call.q.storage
           /\ qlog' = [enqueued |-> Append(qlog.enqueued, call.queuedOperation),
                       call |-> "enqueue", arg |-> res.op,
                       returned |-> call.queuedOperation,
                       write |-> Written(accepted), removed |-> 0,
                       ticks |-> qlog.ticks]
    /\ UNCHANGED <<seen, restored, gen, now, relayVars, sessionVars>>

\* the queue ids handed out so far
QueueIds == {qlog.enqueued[i].id : i \in 1..Len(qlog.enqueued)}

\* offlineQueue.removeProcessed([operationId]) (operation_ack)
RemoveProcessed(qid, accepted) ==
    /\ qid \in QueueIds
    /\ LET q == removeProcessed(Queue, <<qid>>, accepted)
       IN  /\ operations' = q.operations
           /\ storage' = q.storage
           /\ qlog' = [qlog EXCEPT
                         !.call = "removeProcessed", !.arg = qid,
                         !.returned = Null, !.write = Written(accepted),
                         !.removed = Len(operations) - Len(q.operations)]
    /\ UNCHANGED <<crdtVars, gen, now, relayVars, sessionVars>>

\* offlineQueueRef.current.cleanupStale() (TextEditor mount)
CleanupStale(accepted) ==
    /\ LET q == cleanupStale(Queue, StaleAge, now, accepted)
       IN  /\ operations' = q.operations
           /\ storage' = q.storage
           /\ qlog' = [qlog EXCEPT
                         !.call = "cleanupStale", !.arg = Null,
                         !.returned = Null,
                         !.write = IF Len(q.operations) # Len(operations)
                                   THEN Written(accepted) ELSE "none",
                         !.removed = Len(operations) - Len(q.operations)]
    /\ UNCHANGED <<crdtVars, gen, now, relayVars, sessionVars>>

\* time passes
Tick(d) ==
    /\ qlog.ticks < MaxTicks
    /\ now' = now + d
    /\ qlog' = [qlog EXCEPT !.ticks = @ + 1]
    /\ UNCHANGED <<crdtVars, gen, operations, storage, relayVars, sessionVars>>

\* a cold restart: new OfflineQueue('document-1') reads the stored item
Restart ==
    /\ operations' = NewOfflineQueue(storage).operations
    /\ qlog' = [qlog EXCEPT !.call = "new", !.arg = Null, !.returned = Null,
                            !.write = "none", !.removed = 0]
    /\ UNCHANGED <<crdtVars, gen, storage, now, relayVars, sessionVars>>

NextQueue ==
    \/ \E random \in Randoms, accepted \in BOOLEAN :
          EnqueueTyped(random, accepted)
    \/ \E qid \in QueueIds, accepted \in BOOLEAN :
          RemoveProcessed(qid, accepted)
    \/ \E accepted \in BOOLEAN : CleanupStale(accepted)
    \/ \E d \in ClockSteps : Tick(d)
    \/ Restart

SpecQueue == Init /\ [][NextQueue]_vars

\* ------------------------------------------ acknowledgements of any kind
\* the acknowledgements a relay may send for the entries made so far
AckMessages ==
    {[type |-> "operation_ack", operationId |-> qid, success |-> success] :
        qid \in QueueIds, success \in BOOLEAN}

\* handleWebSocketMessage(data) with data.type === 'operation_ack'
OperationAck(message, accepted) ==
    /\ LET q == handleOperationAck(Queue, message, accepted)
       IN  /\ operations' = q.operations
           /\ storage' = q.storage
           /\ qlog' = [qlog EXCEPT
                         !.call = "operation_ack", !.arg = message,
                         !.returned = Null,
                         !.write = IF message.success THEN Written(accepted)
                                   ELSE "none",
                         !.removed = Len(operations) - Len(q.operations)]
    /\ UNCHANGED <<crdtVars, gen, now, relayVars, sessionVars>>

NextAck ==
    \/ \E random \in Randoms, accepted \in BOOLEAN :
          EnqueueTyped(random, accepted)
    \/ \E message \in AckMessages, accepted \in BOOLEAN :
          OperationAck(message, accepted)

SpecAck == Init /\ [][NextAck]_vars

\* ------------------------------------------------------ the relay at work
\* the relay becomes rs
RelayBecomes(rs) ==
    /\ clients' = rs.clients
    /\ userCount' = rs.userCount
    /\ readyState' = rs.readyState
    /\ inbox' = rs.inbox

\* the relay is there to handle events: its process has not exited
Listening == lastEvent.event # "exit"

\* what participants send: an operation as send() writes it, a queued
\* operation as syncQueuedOperations writes it, a message of another type,
\* and text that does not parse
Messages ==
    {[type |-> "operation",
      operation |-> localInsert(NewReplica("A"), 0, "a").op],
     [type |-> "operation",
      operation |-> enqueue(NewOfflineQueue(NoItem),
                            localInsert(NewReplica("B"), 0, "b").op,
                            0, "r1", TRUE).queuedOperation,
      isSync |-> TRUE],
     [type |-> "hello"],
     [text |-> "{"]}

\* a socket connects: wss.on('connection'); the sockets are numbered in the
\* order in which they connect
RelayConnection(ws) ==
    /\ Listening
    /\ readyState[ws] = "NONE"
    /\ \A w \in Sockets : w < ws => readyState[w] # "NONE"
    /\ RelayBecomes(onConnection(
            [Relay EXCEPT !.readyState[ws] = "OPEN"], ws))
    /\ lastEvent' = [event |-> "connection", ws |-> ws,
                     received |-> lastEvent.received]
    /\ UNCHANGED <<crdtVars, gen, queueVars, server, sessionVars>>

\* the closing handshake of a socket starts; no handler of the relay runs
RelayClosing(ws) ==
    /\ Listening
    /\ readyState[ws] = "OPEN"
    /\ readyState' = [readyState EXCEPT ![ws] = "CLOSING"]
    /\ lastEvent' = [event |-> "closing", ws |-> ws,
                     received |-> lastEvent.received]
    /\ UNCHANGED <<crdtVars, gen, queueVars, server, clients, userCount,
                   inbox, sessionVars>>

\* a socket is closed: ws.on('close'); what was sent down it and not read
\* is gone with it
RelayClose(ws) ==
    /\ Listening
    /\ readyState[ws] \in {"OPEN", "CLOSING"}
    /\ RelayBecomes(onClose(
            [Relay EXCEPT !.readyState[ws] = "CLOSED", !.inbox[ws] = <<>>],
            ws))
    /\ lastEvent' = [event |-> "close", ws |-> ws,
                     received |-> lastEvent.received]
    /\ UNCHANGED <<crdtVars, gen, queueVars, server, sessionVars>>

\* a message arrives on an open socket: ws.on('message')
RelayMessage(ws, message) ==
    /\ Listening
    /\ readyState[ws] = "OPEN"
    /\ lastEvent.received < MaxMessages
    /\ RelayBecomes(onMessage(Relay, ws, message, server = "part_000"))
    /\ lastEvent' = [event |-> IF Throws(message, server = "part_000")
                               THEN "exit" ELSE "message",
                     ws |-> ws, received |-> lastEvent.received + 1]
    /\ UNCHANGED <<crdtVars, gen, queueVars, server, sessionVars>>

InitAnyRelay ==
    /\ InitReplicas /\ gen = GenIdle /\ InitQueue /\ InitRelay
    /\ InitSession
    /\ server \in {"part_000", "index.js"}

NextRelay ==
    \/ \E ws \in Sockets : RelayConnection(ws)
    \/ \E ws \in Sockets : RelayClosing(ws)
    \/ \E ws \in Sockets : RelayClose(ws)
    \/ \E ws \in Sockets, message \in Messages : RelayMessage(ws, message)

SpecRelay == InitAnyRelay /\ [][NextRelay]_vars

\* ---------------------------------------------------- the session at work
\* (useWebSocket with the queue of part_004; B is the peer, A the session)
Peer == "B"

\* whether the App passes a queue to useWebSocket: the App of part_004
\* (useWebSocket(wsUrl, handleWebSocketMessage, offlineQueueRef.current)),
\* which goes with the relay of part_000, does; src/client/App.jsx
\* (useWebSocket(url, handleWebSocketMessage)), which goes with
\* src/server/index.js, does not
offlineQueue == server = "part_000"

\* the session becomes se
SessionBecomes(se) ==
    /\ connectionState' = se.connectionState
    /\ wsRef' = se.wsRef
    /\ reconnectAttempts' = se.reconnectAttempts
    /\ reconnectTimeout' = se.reconnectTimeout
    /\ syncing' = se.syncing
    /\ passRest' = se.passRest
    /\ syncTimers' = se.syncTimers
    /\ effect' = se.effect
    /\ sock' = se.sock
    /\ wire' = se.wire
    /\ log' = se.log

\* the peer opens its socket
PeerJoins ==
    /\ readyState[PeerSocket] = "NONE"
    /\ RelayBecomes(onConnection(
            [Relay EXCEPT !.readyState[PeerSocket] = "OPEN"], PeerSocket))
    /\ lastEvent' = [event |-> "connection", ws |-> PeerSocket,
                     received |-> lastEvent.received]
    /\ UNCHANGED <<crdtVars, gen, queueVars, server, sessionVars>>

\* useEffect(() => { connect(); return cleanup }, [url, connect, cleanup]):
\* the cleanup of the render before, then the connect of this render
EffectRun ==
    /\ effect # "none"
    /\ LET cleaned == cleanup([Session EXCEPT !.effect = "none"])
       IN  /\ Connects(cleaned, effect) => FreeSocket(cleaned) # NoSocket
           /\ SessionBecomes(connect(cleaned, effect))
    /\ UNCHANGED <<crdtVars, gen, queueVars, relayVars>>

\* a socket of the session opens: wss.on('connection') and ws.onopen
Handshake(ws) ==
    /\ sock[ws].readyState = "CONNECTING"
    /\ readyState[ws] = "NONE"
    /\ \A w \in Sockets : w < ws => readyState[w] # "NONE"
    /\ RelayBecomes(onConnection(
            [Relay EXCEPT !.readyState[ws] = "OPEN"], ws))
    /\ lastEvent' = [event |-> "connection", ws |-> ws,
                     received |-> lastEvent.received]
    /\ LET opened == [Session EXCEPT !.sock[ws].readyState = "OPEN"]
       IN  SessionBecomes(IF sock[ws].handlers THEN onopen(opened, ws)
                          ELSE opened)
    /\ UNCHANGED <<crdtVars, gen, queueVars, server>>

\* a key press in the editor of the session: handleKeyDown, localInsert at
\* the end of the text, onOperation, send
KeyPress(random) ==
    /\ Cardinality(ops) < MaxKeys
    /\ LET res == localInsert(Replica(Writer), Len(data[Writer]), Typed)
           call == send(Session, offlineQueue, Queue,
                        [type |-> "operation", operation |-> res.op],
                        now, random, TRUE)
       IN  /\ Becomes(Writer, res.st)
           /\ ops' = ops \cup {res.op}
           /\ SessionBecomes(call.se)
           /\ operations' = call.q.operations
           /\ storage' = call.q.storage
           /\ qlog' = IF call.queued = <<>> THEN qlog
                      ELSE [enqueued |-> Append(qlog.enqueued, call.queued[1]),
                            call |-> "enqueue", arg |-> res.op,
                            returned |-> call.queued[1],
                            write |-> Written(TRUE), removed |-> 0,
                            ticks |-> qlog.ticks]
    /\ UNCHANGED <<seen, restored, gen, now, relayVars>>

\* the connection of an open socket of the session is lost: ws.onclose with
\* code 1006 if the handlers are still there, ws.on('close') at the relay;
\* what was written to either end and not read is lost
Drop(ws) ==
    /\ sock[ws].readyState = "OPEN"
    /\ readyState[ws] = "OPEN"
    /\ LET closed == [Session EXCEPT !.sock[ws].readyState = "CLOSED",
                                     !.wire[ws] = <<>>]
       IN  SessionBecomes(IF sock[ws].handlers THEN onclose(closed, ws, 1006)
                          ELSE closed)
    /\ RelayBecomes(onClose(
            [Relay EXCEPT !.readyState[ws] = "CLOSED", !.inbox[ws] = <<>>],
            ws))
    /\ lastEvent' = [event |-> "close", ws |-> ws,
                     received |-> lastEvent.received]
    /\ UNCHANGED <<crdtVars, gen, queueVars, server>>

\* a socket that cleanup closed is closed at the relay, after all that was
\* written to it: ws.on('close'); its handlers at the session are gone
ServerClose(ws) ==
    /\ sock[ws].readyState = "CLOSING"
    /\ wire[ws] = <<>>
    /\ readyState[ws] = "OPEN"
    /\ sock' = [sock EXCEPT ![ws].readyState = "CLOSED"]
    /\ RelayBecomes(onClose(
            [Relay EXCEPT !.readyState[ws] = "CLOSED", !.inbox[ws] = <<>>],
            ws))
    /\ lastEvent' = [event |-> "close", ws |-> ws,
                     received |-> lastEvent.received]
    /\ UNCHANGED <<crdtVars, gen, queueVars, server, connectionState, wsRef,
                   reconnectAttempts, reconnectTimeout, syncing, passRest,
                   syncTimers, effect, wire, log>>

\* the timer of ws.onclose fires: the connect of the render that made the
\* socket
ReconnectTimer ==
    /\ reconnectTimeout # "none"
    /\ LET fired == [Session EXCEPT !.reconnectTimeout = "none"]
       IN  /\ Connects(fired, reconnectTimeout)
                => FreeSocket(fired) # NoSocket
           /\ SessionBecomes(connect(fired, reconnectTimeout))
    /\ UNCHANGED <<crdtVars, gen, queueVars, relayVars>>

\* the timer of ws.onopen fires: syncQueuedOperations()
SyncTimer ==
    /\ syncTimers > 0
    /\ LET called == syncQueuedOperations(
                        [Session EXCEPT !.syncTimers = @ - 1],
                        offlineQueue, Queue)
       IN  SessionBecomes([called EXCEPT !.log.byTimer =
                              @ + (called.log.passes - log.passes)])
    /\ UNCHANGED <<crdtVars, gen, queueVars, relayVars>>

\* the button Sync Now of part_004, shown while connectionState is
\* CONNECTED and operations are pending: syncQueuedOperations()
SyncNow ==
    /\ offlineQueue
    /\ connectionState = "CONNECTED"
    /\ operations # <<>>
    /\ ~syncing /\ IsOpen(Session)
    /\ log.passes - log.byTimer < MaxPresses
    /\ SessionBecomes(syncQueuedOperations(Session, offlineQueue, Queue))
    /\ UNCHANGED <<crdtVars, gen, queueVars, relayVars>>

\* a socket of the session fails to connect: ws.onerror and ws.onclose with
\* code 1006, if the handlers are there; the relay never saw the socket,
\* and nothing refers to it any more
ConnectFails(ws) ==
    /\ sock[ws].readyState = "CONNECTING"
    /\ readyState[ws] = "NONE"
    /\ LET failed == [Session EXCEPT !.log.failed = @ + 1]
           handled == IF sock[ws].handlers
                      THEN onclose(onerror(failed), ws, 1006)
                      ELSE failed
       IN  SessionBecomes([handled EXCEPT !.sock[ws] =
                [readyState |-> "NONE", handlers |-> FALSE, by |-> "none"]])
    /\ UNCHANGED <<crdtVars, gen, queueVars, relayVars>>

\* event.code of a close event: normal closure, going away, abnormal closure
Codes == {1000, 1001, 1006}

\* the transport of an open socket of the session closes with a code:
\* ws.onclose(event) if the handlers are still there, ws.on('close') at the
\* relay
Closes(ws, code) ==
    /\ sock[ws].readyState = "OPEN"
    /\ readyState[ws] = "OPEN"
    /\ LET closed == [Session EXCEPT !.sock[ws].readyState = "CLOSED",
                                     !.wire[ws] = <<>>]
       IN  SessionBecomes(IF sock[ws].handlers THEN onclose(closed, ws, code)
                          ELSE closed)
    /\ RelayBecomes(onClose(
            [Relay EXCEPT !.readyState[ws] = "CLOSED", !.inbox[ws] = <<>>],
            ws))
    /\ lastEvent' = [event |-> "close", ws |-> ws,
                     received |-> lastEvent.received]
    /\ UNCHANGED <<crdtVars, gen, queueVars, server>>

\* ConnectFails(ws) with the delay of the timer
ConnectFailsDelay(ws, random) ==
    /\ sock[ws].readyState = "CONNECTING"
    /\ readyState[ws] = "NONE"
    /\ LET failed == [Session EXCEPT !.log.failed = @ + 1]
           handled == IF sock[ws].handlers
                      THEN oncloseDelay(onerror(failed), ws, 1006, random)
                      ELSE failed
       IN  SessionBecomes([handled EXCEPT !.sock[ws] =
                [readyState |-> "NONE", handlers |-> FALSE, by |-> "none"]])
    /\ UNCHANGED <<crdtVars, gen, queueVars, relayVars>>

\* Drop(ws) with the delay of the timer
DropDelay(ws, random) ==
    /\ sock[ws].readyState = "OPEN"
    /\ readyState[ws] = "OPEN"
    /\ LET closed == [Session EXCEPT !.sock[ws].readyState = "CLOSED",
                                     !.wire[ws] = <<>>]
       IN  SessionBecomes(IF sock[ws].handlers
                          THEN oncloseDelay(closed, ws, 1006, random)
                          ELSE closed)
    /\ RelayBecomes(onClose(
            [Relay EXCEPT !.readyState[ws] = "CLOSED", !.inbox[ws] = <<>>],
            ws))
    /\ lastEvent' = [event |-> "close", ws |-> ws,
                     received |-> lastEvent.received]
    /\ UNCHANGED <<crdtVars, gen, queueVars, server>>

\* the component is unmounted: the cleanup of the effect that ran last, and
\* no effect ever after
Close ==
    /\ ~log.closed
    /\ SessionBecomes(cleanup([Session EXCEPT !.effect = "none",
                                              !.log.closed = TRUE]))
    /\ UNCHANGED <<crdtVars, gen, queueVars, relayVars>>

\* the button Reconnect, shown while connectionState is DISCONNECTED:
\* manualReconnect(), with the connect of the render that shows the button
ManualReconnect ==
    /\ connectionState = "DISCONNECTED"
    /\ LET cleaned == cleanup([Session EXCEPT !.reconnectAttempts = 0,
                                              !.log.opened = 0,
                                              !.log.failed = 0])
       IN  /\ FreeSocket(cleaned) # NoSocket
           /\ SessionBecomes(connect(cleaned, connectionState))
    /\ UNCHANGED <<crdtVars, gen, queueVars, relayVars>>

\* a key press in the editor while the component is mounted
KeyPressMounted(random) == ~log.closed /\ KeyPress(random)

\* the await of syncQueuedOperations is over: the next turn of its loop
SyncNext ==
    /\ syncing
    /\ SessionBecomes(syncTurn(Session))
    /\ UNCHANGED <<crdtVars, gen, queueVars, relayVars>>

\* the relay reads what the session wrote: ws.on('message')
RelayReceives(ws) ==
    /\ wire[ws] # <<>>
    /\ readyState[ws] = "OPEN"
    /\ RelayBecomes(onMessage(Relay, ws, Head(wire[ws]), server = "part_000"))
    /\ wire' = [wire EXCEPT ![ws] = Tail(@)]
    /\ lastEvent' = [event |-> "message", ws |-> ws,
                     received |-> lastEvent.received]
    /\ UNCHANGED <<crdtVars, gen, queueVars, server, connectionState, wsRef,
                   reconnectAttempts, reconnectTimeout, syncing, passRest,
                   syncTimers, effect, sock, log>>

\* the session reads what the relay sent: ws.onmessage, if it is still
\* there, and handleWebSocketMessage
SessionReceives(ws) ==
    /\ inbox[ws] # <<>>
    /\ sock[ws].readyState \in {"OPEN", "CLOSING"}
    /\ inbox' = [inbox EXCEPT ![ws] = Tail(@)]
    /\ LET message == Head(inbox[ws])
       IN  IF sock[ws].handlers /\ offlineQueue
              /\ message.type = "operation_ack"
           THEN LET q == handleOperationAck(Queue, message, TRUE)
                IN  /\ operations' = q.operations
                    /\ storage' = q.storage
                    /\ qlog' = [qlog EXCEPT
                                  !.call = "removeProcessed",
                                  !.arg = message.operationId,
                                  !.returned = Null,
                                  !.write = Written(TRUE),
                                  !.removed = Len(operations)
                                                - Len(q.operations)]
           ELSE UNCHANGED <<operations, storage, qlog>>
    /\ UNCHANGED <<crdtVars, gen, now, server, clients, userCount, readyState,
                   lastEvent, sessionVars>>

\* the peer reads what the relay sent: an operation goes to
\* applyRemoteOperation of its editor
PeerReceives ==
    /\ inbox[PeerSocket] # <<>>
    /\ inbox' = [inbox EXCEPT ![PeerSocket] = Tail(@)]
    /\ LET message == Head(inbox[PeerSocket])
       IN  IF message.type = "operation"
           THEN LET call == applyRemoteOperationOrThrow(Replica(Peer),
                                                        message.operation)
                IN  /\ Becomes(Peer, call.st)
                    /\ seen' = [seen EXCEPT ![Peer] =
                                  IF call.threw THEN @
                                  ELSE @ \cup {message.operation}]
                    /\ log' = [log EXCEPT !.received =
                                 Append(@, [timestamp |->
                                               message.operation.timestamp,
                                            threw |-> call.threw])]
           ELSE UNCHANGED <<data, tombstones, lamportTime, idCounter, seen,
                            log>>
    /\ UNCHANGED <<ops, restored, gen, queueVars, server, clients, userCount,
                   readyState, lastEvent, connectionState, wsRef,
                   reconnectAttempts, reconnectTimeout, syncing, passRest,
                   syncTimers, effect, sock, wire>>

NextSession ==
    \/ PeerJoins
    \/ EffectRun
    \/ \E ws \in SessionSockets : Handshake(ws)
    \/ \E random \in Randoms : KeyPress(random)
    \/ \E ws \in SessionSockets : Drop(ws)
    \/ \E ws \in SessionSockets : ServerClose(ws)
    \/ ReconnectTimer
    \/ SyncTimer
    \/ SyncNext
    \/ \E ws \in SessionSockets : RelayReceives(ws)
    \/ \E ws \in SessionSockets : SessionReceives(ws)
    \/ PeerReceives

SpecSession == Init /\ [][NextSession]_vars

\* the session of either App
SpecSessionAny == InitAnyRelay /\ [][NextSession]_vars

\* the passes of syncQueuedOperations of a session, by timer and by button;
\* what the session writes is not read
NextPass ==
    \/ PeerJoins
    \/ EffectRun
    \/ \E ws \in SessionSockets : Handshake(ws)
    \/ \E random \in Randoms : KeyPress(random)
    \/ \E ws \in SessionSockets : Drop(ws)
    \/ ReconnectTimer
    \/ SyncTimer
    \/ SyncNow
    \/ SyncNext

SpecPass == Init /\ [][NextPass]_vars

\* a session whose attempts to connect may fail
NextRetry ==
    \/ PeerJoins
    \/ EffectRun
    \/ ReconnectTimer
    \/ \E ws \in SessionSockets : ConnectFails(ws)
    \/ \E ws \in SessionSockets : Handshake(ws)
    \/ \E ws \in SessionSockets : Drop(ws)
    \/ \E ws \in SessionSockets : ServerClose(ws)

SpecRetry == Init /\ [][NextRetry]_vars

\* a session whose sockets close with any code
NextClose ==
    \/ PeerJoins
    \/ EffectRun
    \/ ReconnectTimer
    \/ \E ws \in SessionSockets : ConnectFails(ws)
    \/ \E ws \in SessionSockets : Handshake(ws)
    \/ \E ws \in SessionSockets, code \in Codes : Closes(ws, code)
    \/ \E ws \in SessionSockets : ServerClose(ws)

SpecClose == Init /\ [][NextClose]_vars

\* a session and the delays of its reconnect timers
NextBackoff ==
    \/ PeerJoins
    \/ EffectRun
    \/ ReconnectTimer
    \/ \E ws \in SessionSockets, random \in Jitters :
          ConnectFailsDelay(ws, random)
    \/ \E ws \in SessionSockets : Handshake(ws)
    \/ \E ws \in SessionSockets, random \in Jitters : DropDelay(ws, random)

SpecBackoff == Init /\ [][NextBackoff]_vars

\* a session that is closed at some moment; the editor is gone with it
NextCancel ==
    \/ PeerJoins
    \/ EffectRun
    \/ \E ws \in SessionSockets : Handshake(ws)
    \/ \E random \in Randoms : KeyPressMounted(random)
    \/ \E ws \in SessionSockets : Drop(ws)
    \/ \E ws \in SessionSockets : ConnectFails(ws)
    \/ ReconnectTimer
    \/ SyncTimer
    \/ SyncNext
    \/ Close

SpecCancel == Init /\ [][NextCancel]_vars

\* the sockets of a session: made by the effect, by the reconnect timer and
\* by the button Reconnect
NextConnect ==
    \/ PeerJoins
    \/ EffectRun
    \/ ReconnectTimer
    \/ ManualReconnect
    \/ \E ws \in SessionSockets : ConnectFails(ws)
    \/ \E ws \in SessionSockets : Handshake(ws)
    \/ \E ws \in SessionSockets, code \in Codes : Closes(ws, code)
    \/ \E ws \in SessionSockets : ServerClose(ws)

SpecConnect == Init /\ [][NextConnect]_vars

\* ------------------------------------------- actions of the part_001 variant
LocalInsertP1(r, index) ==
    /\ Cardinality(ops) < MaxEdits
    /\ lamportTime[r] < MaxTime
    /\ LET res == localInsertP1(Replica(r), index, Typed)
       IN  /\ Becomes(r, res.st)
           /\ ops' = ops \cup {res.op}
    /\ UNCHANGED <<seen, restored, nonCrdt>>

LocalDeleteP1(r, index) ==
    /\ Cardinality(ops) < MaxEdits
    /\ lamportTime[r] < MaxTime
    /\ LET res == localDeleteP1(Replica(r), index)
       IN  /\ res.op # Null
           /\ Becomes(r, res.st)
           /\ ops' = ops \cup {res.op}
    /\ UNCHANGED <<seen, restored, nonCrdt>>

ApplyRemoteP1(r, op) ==
    /\ op \in ops
    /\ op.siteId # r
    /\ lamportTime[r] < MaxTime
    /\ Becomes(r, applyRemoteOperationP1(Replica(r), op))
    /\ seen' = [seen EXCEPT ![r] = @ \cup {op}]
    /\ UNCHANGED <<ops, restored, nonCrdt>>

NextP1 ==
    \/ \E r \in Peers, i \in 0..MaxEdits :
          i <= Len(data[r]) /\ LocalInsertP1(r, i)
    \/ \E r \in Peers, i \in 0..MaxEdits : LocalDeleteP1(r, i)
    \/ \E r \in Peers, op \in ops : ApplyRemoteP1(r, op)
    \/ \E r \in Peers, q \in Peers : ApplyState(r, q)

SpecP1 == Init /\ [][NextP1]_vars

\* ------------------------------------------------ generateIdBetween alone
\* A document grown by insertions only: (prevId, nextId) is a gap between
\* two adjacent ids (Nil at the ends), generateIdBetween fills it, and the
\* next insertion goes right before or right after the new id.
GenCallOf(prevId, nextId, below, above) ==
    [pc |-> "call", prevId |-> prevId, nextId |-> nextId, result |-> Nil,
     below |-> below, above |-> above]

Between(prevId, id, nextId) ==
    /\ id # Nil
    /\ prevId # Nil => Neg(compareIds(prevId, id))
    /\ nextId # Nil => Neg(compareIds(id, nextId))

InitGen == InitReplicas /\ gen = GenCallOf(Nil, Nil, 0, 0) /\ InitQueue
           /\ InitRelay /\ server = "part_000" /\ InitSession

GenCall ==
    /\ gen.pc = "call"
    /\ gen' = [gen EXCEPT
                 !.pc = "done",
                 !.result = generateIdBetween(gen.prevId, gen.nextId, 0)]
    /\ UNCHANGED <<crdtVars, queueVars, relayVars, sessionVars>>

\* the next character is typed right before the one just inserted
GenBelow ==
    /\ gen.pc = "done"
    /\ Between(gen.prevId, gen.result, gen.nextId)
    /\ gen.below < MaxBelow
    /\ gen' = GenCallOf(gen.prevId, gen.result, gen.below + 1, gen.above)
    /\ UNCHANGED <<crdtVars, queueVars, relayVars, sessionVars>>

\* the next character is typed right after the one just inserted
GenAbove ==
    /\ gen.pc = "done"
    /\ Between(gen.prevId, gen.result, gen.nextId)
    /\ gen.above < MaxAbove
    /\ gen' = GenCallOf(gen.result, gen.nextId, gen.below, gen.above + 1)
    /\ UNCHANGED <<crdtVars, queueVars, relayVars, sessionVars>>

NextGen == GenCall \/ GenBelow \/ GenAbove

SpecGen == InitGen /\ [][NextGen]_vars

\* ------------------------------------------------------------ properties
Live(r) == {idString(data[r][i].id) : i \in 1..Len(data[r])}
OwnOps(r) == {o \in ops : o.siteId = r}
\* a replica that started empty and was changed by applyRemoteOperation only
OnlyReceived(r) == OwnOps(r) = {} /\ ~restored[r]

\* C1 (convergence): two replicas that started empty and applied the same
\* set of operations through applyRemoteOperation, in whatever order, have
\* equal live sequences, equal text and equal tombstone sets.
C1_Convergence ==
    \A r1 \in Sites, r2 \in Sites :
        (OnlyReceived(r1) /\ OnlyReceived(r2) /\ seen[r1] = seen[r2])
        => /\ data[r1] = data[r2]
           /\ getText(Replica(r1)) = getText(Replica(r2))
           /\ tombstones[r1] = tombstones[r2]

\* the live sequence d is strictly ascending under compareIds
Ascending(d) ==
    \A i \in 1..(Len(d) - 1) : Neg(compareCharIds(d[i].id, d[i + 1].id))

\* C2 (I1): after every localInsert, localDelete and applyRemoteOperation
\* the live sequence of every replica is strictly ascending by character id
\* under compareIds (so no two live characters have equal ids).
C2_LiveAscending == \A r \in Sites : Ascending(data[r])

\* C3 (I2): in every reachable state no id is both the id of a live
\* character and a member of the tombstone set.
C3_LiveXorTombstone == \A r \in Sites : Live(r) \cap tombstones[r] = {}

\* a replica received an insert and the id is now in its tombstones, while
\* the character is still live at its author
C3_Witness ==
    \E r \in Sites : \E o \in seen[r] :
        /\ o.type = "insert"
        /\ idString(o.id) \in tombstones[r]
        /\ idString(o.id) \in Live(o.siteId)

\* C4 (I3): tombstones are permanent: an id in the tombstone set of a
\* replica is in it in every later state, whatever local edit, remote
\* operation or applyState call follows.
C4_TombstonesPermanent ==
    [][\A r \in Sites : tombstones[r] \subseteq tombstones'[r]]_vars

\* the clock is at least the timestamp of every operation the replica
\* produced or received
C5_ClockInv ==
    \A r \in Sites :
        \A o \in OwnOps(r) \cup seen[r] : lamportTime[r] >= o.timestamp

\* applyRemoteOperation leaves the clock at max(lamportTime, op.timestamp)
\* + 1, whatever it does with the operation
C5_ClockStep ==
    \A r \in Sites : \A o \in ops :
        applyRemoteOperation(Replica(r), o).lamportTime
            = Max(lamportTime[r], o.timestamp) + 1

\* C5 (I4): in every reachable state lamportTime is at least the timestamp
\* of every operation the replica produced locally or received through
\* applyRemoteOperation, and every applyRemoteOperation sets lamportTime to
\* max(lamportTime, op.timestamp) + 1, also when the operation is dropped.
C5_LamportClock == C5_ClockInv /\ C5_ClockStep

\* a replica that has produced an operation, has been restored by applyState
\* and has received an operation whose timestamp decided its clock
C5_Witness ==
    \E r \in Sites :
        /\ OwnOps(r) # {}
        /\ restored[r]
        /\ \E o \in seen[r] : o.timestamp + 1 = lamportTime[r]

\* the values of a live sequence, and a sequence with v put at 0-based index i
ValuesOf(d) == [k \in 1..Len(d) |-> d[k].value]
InsertAt(q, i, v) == SubSeq(q, 1, i) \o <<v>> \o SubSeq(q, i + 1, Len(q))

\* what a localInsert(i, v) step has to do
C7_Step ==
    \A r \in Sites : \A i \in 0..Len(data[r]) :
        LocalInsert(r, i)
        => LET d == data[r]
               e == data'[r]
           IN  /\ Len(e) = Len(d) + 1
               /\ e[i + 1].value = Typed
               /\ ValuesOf(e) = InsertAt(ValuesOf(d), i, Typed)
               /\ i > 0 => Neg(compareCharIds(d[i].id, e[i + 1].id))
               /\ i < Len(d) => Neg(compareCharIds(e[i + 1].id, d[i + 1].id))

\* C7: for 0 <= index <= |data|, localInsert(index, value) puts the new
\* character at position index, its id is greater than the id of the
\* character at index-1 and less than the id of the character previously at
\* index, and the text afterwards is the old text with value put at index.
C7_InsertAtIndex == [][C7_Step]_vars

\* C9 (idempotence): in every replica state and for every operation op,
\* applying op twice with applyRemoteOperation leaves the same live
\* sequence, text and tombstone set as applying it once; an insert
\* delivered twice yields exactly one character with that id (none when the
\* id is tombstoned).
C9_Idempotent ==
    \A r \in Sites : \A o \in ops :
        LET once  == applyRemoteOperation(Replica(r), o)
            twice == applyRemoteOperation(once, o)
            copies == {i \in 1..Len(twice.data) : twice.data[i].id = o.id}
        IN  /\ twice.data = once.data
            /\ getText(twice) = getText(once)
            /\ twice.tombstones = once.tombstones
            /\ o.type = "insert" =>
                  Cardinality(copies) =
                    IF idString(o.id) \in once.tombstones THEN 0 ELSE 1

\* a replica whose whole history is two deliveries of one insert: nothing
\* produced, no applyState, one operation seen, and the clock two past its
\* timestamp; the character is there once
C9_Witness ==
    \E r \in Sites : \E o \in seen[r] :
        /\ OnlyReceived(r)
        /\ seen[r] = {o}
        /\ o.type = "insert"
        /\ lamportTime[r] = o.timestamp + 2
        /\ Len(data[r]) = 1

\* ids for which the replica applied a delete, locally or remotely
Deleted(r) ==
    {idString(o.id) : o \in {x \in OwnOps(r) \cup seen[r] : x.type = "delete"}}

\* a delivery of an insert whose id the replica has deleted leaves the id
\* tombstoned and not live
C10_Step ==
    \A r \in Sites : \A o \in ops :
        (/\ o.type = "insert"
         /\ idString(o.id) \in Deleted(r)
         /\ ApplyRemote(r, o))
        => /\ idString(o.id) \in tombstones'[r]
           /\ \A i \in 1..Len(data'[r]) : data'[r][i].id # o.id

\* C10 (delete wins): once a delete of id x was applied at a replica
\* (locally or remotely), after any later applyRemoteOperation of an insert
\* with id x, x is in the tombstone set and no live character has id x.
C10_DeleteWins == [][C10_Step]_vars

\* C6: for every gap lo < hi (either end may be nil) between adjacent ids
\* that earlier calls of generateIdBetween produced, generateIdBetween(lo,
\* hi) returns a non-empty id p with lo < p < hi under compareIds.
C6_IdBetween ==
    gen.pc = "done" => Between(gen.prevId, gen.result, gen.nextId)

\* C8: identifiers are never reused: any two distinct localInsert calls, on
\* one replica or on two, return insert operations with different ids.
C8_IdsNeverReused ==
    \A o1 \in ops : \A o2 \in ops :
        (o1.type = "insert" /\ o2.type = "insert" /\ o1 # o2)
        => o1.id # o2.id

\* the end of scenario S1: each of the two replicas produced one insert at
\* index 0 on an empty text (timestamp 1), and then applied the insert of
\* the other, once (clock 2)
S1_Exchanged(r1, r2) ==
    /\ r1 # r2
    /\ ~restored[r1] /\ ~restored[r2]
    /\ \E o1 \in ops, o2 \in ops :
          /\ OwnOps(r1) = {o1} /\ OwnOps(r2) = {o2}
          /\ o1.type = "insert" /\ o2.type = "insert"
          /\ o1.position = 0 /\ o2.position = 0
          /\ o1.timestamp = 1 /\ o2.timestamp = 1
          /\ seen[r1] = {o2} /\ seen[r2] = {o1}
    /\ lamportTime[r1] = 2 /\ lamportTime[r2] = 2

\* C11 (scenario S1): two empty replicas each perform localInsert(0, c)
\* concurrently and then each applies the operation of the other; afterwards
\* both have the same text, of length 2.
C11_S1_ConcurrentInserts ==
    \A r1 \in Peers, r2 \in Peers :
        S1_Exchanged(r1, r2)
        => /\ getText(Replica(r1)) = getText(Replica(r2))
           /\ Len(data[r1]) = 2 /\ Len(data[r2]) = 2

\* the end of scenario S3. The writer typed three characters at indices 0, 1,
\* 2 before it received anything (timestamps 1, 2, 3). The peer erased the
\* first of them with a delete of timestamp >= 5, so its clock was >= 4 and
\* it had applied the third insert (timestamp 3) before; its clock is now
\* past the delete, so an insert came after it, which is the second one.
\* Every operation has been delivered everywhere.
S3_Done ==
    LET typist == Writer
        peer == CHOOSE r \in Peers : r # Writer
        typed == OwnOps(typist)
    IN  /\ Cardinality(typed) = 3
        /\ \A o \in typed : o.type = "insert" /\ o.position = o.timestamp - 1
        /\ {o.timestamp : o \in typed} = {1, 2, 3}
        /\ \E del \in ops :
              /\ OwnOps(peer) = {del}
              /\ del.type = "delete"
              /\ \E o \in typed : o.timestamp = 1 /\ o.id = del.id
              /\ del.timestamp >= 5
              /\ lamportTime[peer] > del.timestamp
              /\ seen[typist] = {del}
        /\ seen[peer] = typed

\* C12 (scenario S3): R1 inserts 'a', 'b', 'c' at indices 0, 1, 2; R2 applies
\* only the inserts of 'a' and 'c' and then performs localDelete(0); once
\* every operation has been delivered to every replica, both replicas show
\* the text "bc".
C12_S3_DeleteWhileInFlight ==
    S3_Done => \A r \in Peers : getText(Replica(r)) = "bc"

\* scenario S4 has run: the session sent its first insert on an open socket
\* and the peer got it, its second insert was queued, an acknowledgement of
\* the relay has been handled, and nothing is in flight or pending any more
S4_Done ==
    /\ Cardinality(ops) = 2
    /\ Len(log.transmitted) >= 1
    /\ log.transmitted[1] = [timestamp |-> 1, isSync |-> FALSE]
    /\ \E i \in 1..Len(log.received) : log.received[i].timestamp = 1
    /\ Len(qlog.enqueued) = 1
    /\ qlog.enqueued[1].timestamp = 2
    /\ qlog.call = "removeProcessed"
    /\ readyState[PeerSocket] = "OPEN"
    /\ \A ws \in Sockets : inbox[ws] = <<>>
    /\ \A ws \in SessionSockets : wire[ws] = <<>>
    /\ ~syncing /\ syncTimers = 0
    /\ effect = "none" /\ reconnectTimeout = "none"

\* C13 (scenario S4): R1 inserts 'X' while connected, the connection drops,
\* R1 inserts 'Y', which is queued, and the session reconnects; then the
\* relay delivers each of the two inserts to R2 exactly once, R2 shows the
\* two letters in the order typed, and the outbound queue of R1 is empty once
\* the acknowledgements have been handled.
C13_S4_Reconnect ==
    S4_Done
    => /\ \A t \in {1, 2} :
             Cardinality({i \in 1..Len(log.received) :
                             log.received[i].timestamp = t}) = 1
       /\ getText(Replica(Peer)) = "ab"
       /\ operations = <<>>

\* C14: an operation kept in the outbound queue is the operation the
\* replica produced: enqueue leaves its type, id (the position identifier of
\* the character), value, timestamp and siteId unchanged, the queue id being
\* a separate field, so that a peer applying the re-sent operation acts on
\* the same id as a peer that received it directly.
C14_EnqueueKeepsOperation ==
    qlog.call = "enqueue"
    => LET operation == qlog.arg
           queued == qlog.returned
       IN  /\ queued.type = operation.type
           /\ queued.id = operation.id
           /\ queued.value = operation.value
           /\ queued.timestamp = operation.timestamp
           /\ queued.siteId = operation.siteId

\* the elements of a sequence
Range(q) == {q[i] : i \in 1..Len(q)}

\* C15 (P6, queue durability): when the local store accepts the write,
\* after enqueue(op) returns, a new OfflineQueue constructed for the same
\* documentId returns that entry from getAll().
C15_QueueDurable ==
    (qlog.call = "enqueue" /\ qlog.write = "accepted")
    => qlog.returned \in Range(getAll(NewOfflineQueue(storage)))

\* a second enqueue whose write was accepted: the stored item holds both
\* entries, the new one last
C15_Witness ==
    /\ qlog.call = "enqueue" /\ qlog.write = "accepted"
    /\ Len(operations) = 2
    /\ Len(getAll(NewOfflineQueue(storage))) = 2
    /\ getAll(NewOfflineQueue(storage))[2] = qlog.returned

\* the entries of q whose queue id is not qid, in their order
Without(q, qid) ==
    LET other(op) == op.id # qid
    IN  SelectSeq(q, other)

\* what removeProcessed([qid]) has to do, in memory and in the store
C16_Removed(qid) ==
    /\ \A e \in Range(operations') : e.id # qid
    /\ \A e \in Range(loadFromStorage(storage')) : e.id # qid
    /\ operations' = Without(operations, qid)

C16_Step ==
    \A qid \in QueueIds, accepted \in BOOLEAN :
        RemoveProcessed(qid, accepted) => C16_Removed(qid)

C16_StepAccepted ==
    \A qid \in QueueIds : RemoveProcessed(qid, TRUE) => C16_Removed(qid)

RECURSIVE IsSubsequence(_, _)
IsSubsequence(s, t) ==
    IF s = <<>> THEN TRUE
    ELSE IF t = <<>> THEN FALSE
    ELSE IF Head(s) = Head(t) THEN IsSubsequence(Tail(s), Tail(t))
    ELSE IsSubsequence(s, Tail(t))

\* C17 (strict FIFO): after any sequence of enqueue, removeProcessed and
\* cleanupStale calls, getAll() lists the remaining entries in the order in
\* which they were enqueued.
C17_QueueFifo == IsSubsequence(getAll(Queue), qlog.enqueued)

\* two entries were enqueued, the first was removed and the second is left
C17_Witness ==
    /\ Len(qlog.enqueued) = 2
    /\ qlog.enqueued[1] # qlog.enqueued[2]
    /\ getAll(Queue) = <<qlog.enqueued[2]>>

\* the messages sent down socket c by the step
SentTo(c) == SubSeq(inbox'[c], Len(inbox[c]) + 1, Len(inbox'[c]))

C19_Step ==
    \A ws \in Sockets, message \in Messages :
        (Parses(message) /\ message.type = "operation"
            /\ RelayMessage(ws, message))
        => LET fanOut == [type |-> "operation",
                          operation |-> message.operation]
           IN  \A c \in Sockets :
                  IF c \in clients /\ c # ws /\ readyState[c] = "OPEN"
                  THEN SentTo(c) = <<fanOut>>
                  ELSE \A i \in 1..Len(SentTo(c)) :
                          SentTo(c)[i].type # "operation"

\* C18: the order in which the operations of a replica are written to its
\* socket is the order in which they were issued (that of their timestamps),
\* also when some of them were queued and are being sent again by a pass of
\* syncQueuedOperations while new edits are sent: an operation first written
\* after a later one does not occur.
C18_TransmitInIssueOrder ==
    \A i, j \in 1..Len(log.transmitted) :
        (i < j /\ log.transmitted[j].timestamp < log.transmitted[i].timestamp)
        => \E k \in 1..(i - 1) :
              log.transmitted[k].timestamp = log.transmitted[j].timestamp

\* C19 (relay fan-out): for every message of type operation received from
\* participant P, the relay sends {type: operation, operation} to every
\* registered participant other than P whose socket is open, and sends it
\* neither to P nor to a participant whose socket is not open.
C19_RelayFanOut == [][C19_Step]_vars

\* an operation went to an open participant while the sender and a
\* participant that is closing got none
C19_Witness ==
    /\ lastEvent.event = "message"
    /\ \E c \in clients, d \in clients :
          /\ c # lastEvent.ws /\ d # lastEvent.ws /\ c # d
          /\ readyState[c] = "OPEN" /\ readyState[d] = "CLOSING"
          /\ inbox[c] # <<>> /\ inbox[c][Len(inbox[c])].type = "operation"
          /\ \A i \in 1..Len(inbox[d]) : inbox[d][i].type # "operation"
          /\ \A i \in 1..Len(inbox[lastEvent.ws]) :
                inbox[lastEvent.ws][i].type # "operation"

\* C20 (relay occupancy): after every connection and close event, in any
\* interleaving of participants, userCount equals the number of sockets in
\* the clients set (the currently connected participants) and is never
\* negative, and the users_update broadcast by that event carries this
\* value.
C20_RelayOccupancy ==
    /\ userCount = Cardinality(clients)
    /\ userCount >= 0
    /\ clients = {ws \in Sockets : readyState[ws] \in {"OPEN", "CLOSING"}}
    /\ lastEvent.event \in {"connection", "close"}
       => \A c \in clients :
             readyState[c] = "OPEN"
             => /\ inbox[c] # <<>>
                /\ inbox[c][Len(inbox[c])] =
                      [type |-> "users_update", count |-> userCount]

\* a close event while another participant is still connected: the count
\* went down and the one left was told
C20_Witness ==
    /\ lastEvent.event = "close"
    /\ userCount = 1
    /\ \E c \in clients :
          /\ Len(inbox[c]) >= 3
          /\ inbox[c][Len(inbox[c])] = [type |-> "users_update", count |-> 1]

\* what the relay does with a message marked as sync whose operation has an
\* id: the sender gets the acknowledgement, and nothing else
C21_Step ==
    \A ws \in Sockets, message \in Messages :
        (RelayMessage(ws, message) /\ AsksAck(message))
        => SentTo(ws) = <<[type |-> "operation_ack",
                           operationId |-> message.operation.id,
                           success |-> TRUE]>>

\* C21 (relay acknowledgement): for every received operation message marked
\* as sync whose operation carries an id, the relay sends the sender an
\* operation_ack with success true and operationId equal to that id, after
\* the fan-out of the message.
C21_RelayAck == [][C21_Step]_vars

\* whether the index of the last call is outside of what the call allows
C22_OutOfRange ==
    \/ log.call.index < 0
    \/ log.call.index > Len(log.call.before.data)

\* the replica of the last call is as it was before the call
CallLeftReplica ==
    /\ data[log.call.replica] = log.call.before.data
    /\ tombstones[log.call.replica] = log.call.before.tombstones
    /\ lamportTime[log.call.replica] = log.call.before.lamportTime

\* C22: localInsert(index, value) with index < 0 or index > |liveSeq| fails
\* with InvalidIndex and changes nothing: the live sequence, the tombstones
\* and lamportTime are as before the call and no operation is returned.
C22_InsertInvalidIndex ==
    (log.call.name = "localInsert" /\ C22_OutOfRange)
    => /\ log.call.returned = Null
       /\ CallLeftReplica

\* C23: localDelete(index) with index < 0 or index >= |liveSeq| returns none
\* and leaves the live sequence, the tombstones and lamportTime unchanged;
\* with index in range it removes exactly the character at index, adds its
\* id to the tombstones, increments lamportTime by one and returns a delete
\* operation with that id and the new lamportTime.
C23_LocalDelete ==
    log.call.name = "localDelete"
    => LET r == log.call.replica
           before == log.call.before
           i == log.call.index
       IN  IF i < 0 \/ i >= Len(before.data)
           THEN log.call.returned = Null /\ CallLeftReplica
           ELSE /\ data[r] = SubSeq(before.data, 1, i)
                               \o SubSeq(before.data, i + 2, Len(before.data))
                /\ tombstones[r] = before.tombstones
                                     \cup {idString(before.data[i + 1].id)}
                /\ lamportTime[r] = before.lamportTime + 1
                /\ log.call.returned =
                      [type |-> "delete", id |-> before.data[i + 1].id,
                       timestamp |-> before.lamportTime + 1, siteId |-> r]

\* a call out of range on a text that is not empty, after a call in range
\* did delete a character of the same replica
C23_Witness ==
    /\ log.call.name = "localDelete"
    /\ log.call.index >= Len(log.call.before.data)
    /\ log.call.before.data # <<>>
    /\ log.call.returned = Null
    /\ \E op \in ops :
          /\ op.type = "delete" /\ op.siteId = log.call.replica
          /\ idString(op.id) \in tombstones[log.call.replica]

\* C24: a malformed remote operation (missing id, missing timestamp, or an
\* id that is not a sequence of integers) is rejected by
\* applyRemoteOperation with MalformedOperation and the replica is
\* untouched: the live sequence, the tombstones and lamportTime are as
\* before the call.
C24_MalformedRejected ==
    (log.call.name = "applyRemoteOperation"
        /\ log.call.operation \in Malformed)
    => log.call.threw /\ CallLeftReplica

\* what the relay does with a message that does not parse
C25_Step ==
    \A ws \in Sockets, message \in Messages :
        (RelayMessage(ws, message) /\ ~Parses(message))
        => /\ Len(SentTo(ws)) = 1
           /\ SentTo(ws)[1].type = "operation_ack"
           /\ SentTo(ws)[1].success = FALSE
           /\ \A c \in Sockets \ {ws} : SentTo(c) = <<>>
           /\ Listening'

\* C25: on malformed input (a message that does not parse) the relay sends
\* the sender an operation_ack with success false and an error string, fans
\* nothing out, and keeps serving: later well-formed operations of any
\* participant are still fanned out.
C25_RelayMalformed == [][C25_Step]_vars

\* C26: no local operation is lost on the send path: every message of type
\* operation passed to send() is either written to an open socket or
\* appended to the outbound queue (when not connected), in every connection
\* state.
C26_SendLosesNothing ==
    \A op \in ops :
        \/ \E i \in 1..Len(log.transmitted) :
              log.transmitted[i].timestamp = op.timestamp
        \/ \E i \in 1..Len(qlog.enqueued) :
              qlog.enqueued[i].timestamp = op.timestamp

\* what handleWebSocketMessage does to the queue on an acknowledgement
C27_Step ==
    \A message \in AckMessages, accepted \in BOOLEAN :
        OperationAck(message, accepted)
        => IF message.success
           THEN operations' = Without(operations, message.operationId)
           ELSE /\ operations' = operations
                /\ getAll(Queue)' = getAll(Queue)

\* C27: on an operation_ack with success true, exactly the queue entry whose
\* queue id equals the operationId of the ack is removed from the outbound
\* queue; on an ack with success false no entry is removed, so that the
\* entry is sent again by the next pass of syncQueuedOperations.
C27_AckRemovesEntry == [][C27_Step]_vars

\* an ack without success for an entry that is in the queue, and still
\* there, after an ack with success took the other entry out
C27_Witness ==
    /\ qlog.call = "operation_ack"
    /\ ~qlog.arg.success
    /\ qlog.removed = 0
    /\ Len(qlog.enqueued) = 2
    /\ Len(operations) = 1
    /\ operations[1].id = qlog.arg.operationId

\* what the last pass wrote is, in order, a prefix of the queue it read,
\* each entry marked isSync
C28_Prefix ==
    /\ Len(log.pass.sent) <= Len(log.pass.snapshot)
    /\ \A i \in 1..Len(log.pass.sent) :
          log.pass.sent[i].message =
             [type |-> "operation", operation |-> log.pass.snapshot[i],
              isSync |-> TRUE]

C29_OnePassPerConnect ==
    /\ (syncTimers = 0 /\ IsOpen(Session)) => log.passSocket = wsRef
    /\ log.pass.begun - log.pass.finished <= 1

C31_Step ==
    /\ \A ws \in SessionSockets :
          (sock[ws].handlers
           /\ sock[ws].readyState \in {"OPEN", "CONNECTING"}
           /\ sock'[ws].readyState \in {"CLOSED", "NONE"})
          => IF reconnectAttempts >= maxReconnectAttempts
             THEN connectionState' = "DISCONNECTED"
             ELSE \/ /\ connectionState' = "RECONNECTING"
                     /\ reconnectAttempts' = reconnectAttempts + 1
                     /\ reconnectTimeout = "none"
                     /\ reconnectTimeout' # "none"
                     /\ ~Closes(ws, 1000)
                  \/ /\ connectionState' = "DISCONNECTED"
                     /\ reconnectAttempts' = reconnectAttempts
                     /\ reconnectTimeout' = reconnectTimeout
                     /\ Closes(ws, 1000)
    /\ \A ws \in SessionSockets :
          (sock[ws].handlers
           /\ sock[ws].readyState = "CONNECTING"
           /\ sock'[ws].readyState = "OPEN")
          => reconnectAttempts' = 0 /\ connectionState' = "CONNECTED"

C32_Delays == log.delays

C32_Floor(n) ==
    IF baseReconnectDelay * 2 ^ n < maxReconnectDelay
    THEN baseReconnectDelay * 2 ^ n
    ELSE maxReconnectDelay

C32_NonDecreasing ==
    \A k \in 2..Len(C32_Delays) :
        C32_Delays[k - 1] < maxReconnectDelay
        => C32_Delays[k - 1] <= C32_Delays[k]

C32_Capped == \A k \in 1..Len(C32_Delays) : C32_Delays[k] <= 31000

C32_Backoff ==
    /\ \A k \in 1..Len(C32_Delays) :
          /\ C32_Floor(k - 1) <= C32_Delays[k]
          /\ C32_Delays[k] < C32_Floor(k - 1) + 1000
    /\ C32_NonDecreasing
    /\ C32_Capped

\* the same with n counting the attempt that has just failed as well
C32_BackoffFromTwo ==
    /\ \A k \in 1..Len(C32_Delays) :
          /\ C32_Floor(k) <= C32_Delays[k]
          /\ C32_Delays[k] < C32_Floor(k) + 1000
    /\ C32_NonDecreasing
    /\ C32_Capped

\* C33: the close of the session (cleanup) cancels the pending reconnect
\* timer and leaves the queue as it is, and after it no handler of a socket
\* made before runs: the socket reference, the attempt counter, the
\* reconnect timer and the state of the session stay as they are, no timer
\* of onopen is set and nothing is written to a socket.
C33_Step ==
    /\ (~log.closed /\ log'.closed)
       => /\ reconnectTimeout' = "none"
          /\ operations' = operations
          /\ storage' = storage
    /\ log.closed
       => /\ UNCHANGED <<connectionState, wsRef, reconnectAttempts,
                         reconnectTimeout>>
          /\ syncTimers' <= syncTimers
          /\ log'.transmitted = log.transmitted

C33_Cancellation == [][C33_Step]_vars

\* C34: at any time at most one socket of the session is connecting or
\* open, whether connect() is called by the effect, by the reconnect timer
\* or by manual reconnect.
C34_Live == {ws \in SessionSockets : sock[ws].readyState \in {"CONNECTING", "OPEN"}}

C35_ConnectedHasSocket == connectionState = "CONNECTED" => IsOpen(Session)
====
